---- MODULE Spec2Model ----
(***************************************************************************)
(* ECDSA signing, verification and public key recovery (btclib/dsa.py)     *)
(* with the RFC6979 deterministic nonce generator (btclib/rfc6979.py),     *)
(* over low-cardinality short Weierstrass curves.                          *)
(*                                                                         *)
(* The functions of dsa.py and rfc6979.py are translated statement by      *)
(* statement.  Their collaborators that live in other modules of the       *)
(* library (curve.py, curvemult.py, numbertheory.py, utils.py) are         *)
(* modelled from their contract: exact integer and group arithmetic.       *)
(* A function that raises returns a record whose err field names the       *)
(* error; err = "none" is a normal return.                                 *)
(***************************************************************************)
EXTENDS Integers, Sequences, FiniteSets, TLC

(***************************************************************************)
(* Bounds of the model.                                                    *)
(***************************************************************************)
\* number of distinct message digests hf(msg) the callers present
NumDigests == 16
\* candidates the nonce generator's loop is followed for
MaxTries == 6
\* Significand width of the float that the true division ec.n / 2 yields.
\* CPython floats carry 53 bits against the 256 bits of secp256k1's order;
\* the orders of the model's curves have 3 or 4 bits and the significand is
\* scaled down with them.
SignificandBits == 2
\* concurrent callers
NumThreads == 2
\* largest scalar committed to
MaxScalar == 8
\* longest human-readable part and longest data part of an encoded string
MaxHrp == 1
MaxData == 1
\* longest octet string passed where a digest is expected
MaxOctets == 2

\* the largest number of pub_keys of a p2ms payload
MaxKeys == 2

\* an optional argument is a tuple: None, or <<value>>
None == <<>>
Some(v) == <<v>>

(***************************************************************************)
(* Curves: y^2 = x^3 + a*x + b over GF(p), generator G of prime order n,   *)
(* cofactor h.  p > n with h = 1 (two curves), n > p, and h = 3.  id is   *)
(* the curve's place in Curves.                                            *)
(***************************************************************************)
Curves ==
  << [id |-> 1, p |-> 13, a |-> 7, b |-> 6, G |-> <<1, 1>>, n |-> 11, h |-> 1],
     [id |-> 2, p |-> 17, a |-> 6, b |-> 8, G |-> <<0, 12>>, n |-> 13, h |-> 1],
     [id |-> 3, p |-> 7, a |-> 0, b |-> 3, G |-> <<1, 2>>, n |-> 13, h |-> 1],
     [id |-> 4, p |-> 13, a |-> 0, b |-> 4, G |-> <<7, 3>>, n |-> 7, h |-> 3] >>

CurveSet == {Curves[i] : i \in DOMAIN Curves}

\* the point at infinity in affine coordinates: any point with y = 0
INF == <<7, 0>>

RECURSIVE bit_length(_)
bit_length(i) == IF i = 0 THEN 0 ELSE 1 + bit_length(i \div 2)

nlen(ec) == bit_length(ec.n)
nsize(ec) == (nlen(ec) + 7) \div 8

(***************************************************************************)
(* numbertheory.mod_inv: the inverse of a modulo m, 0 for the ValueError   *)
(* raised when a has no inverse.                                           *)
(***************************************************************************)
mod_inv(a, m) ==
  LET a0 == a % m
  IN  IF \E x \in 1..(m - 1) : (a0 * x) % m = 1
      THEN CHOOSE x \in 1..(m - 1) : (a0 * x) % m = 1
      ELSE 0

(***************************************************************************)
(* Curve arithmetic provider.                                              *)
(***************************************************************************)
_y2(x, ec) == (x * x * x + ec.a * x + ec.b) % ec.p

is_on_curve(Q, ec) ==
  IF Q[2] = 0 THEN TRUE
  ELSE /\ 0 < Q[2]
       /\ Q[2] < ec.p
       /\ _y2(Q[1], ec) = (Q[2] * Q[2]) % ec.p

\* the finite points of the curve
Points(ec) ==
  {Q \in (0..(ec.p - 1)) \X (1..(ec.p - 1)) : is_on_curve(Q, ec)}

opposite(Q, ec) == IF Q[2] = 0 THEN INF ELSE <<Q[1], (ec.p - Q[2]) % ec.p>>

add(Q, R, ec) ==
  IF Q[2] = 0 THEN R
  ELSE IF R[2] = 0 THEN Q
  ELSE IF Q[1] = R[1] /\ (Q[2] + R[2]) % ec.p = 0 THEN INF
  ELSE LET lam == IF Q[1] = R[1]
                  THEN ((3 * Q[1] * Q[1] + ec.a) * mod_inv(2 * Q[2], ec.p)) % ec.p
                  ELSE ((R[2] - Q[2]) * mod_inv(R[1] - Q[1], ec.p)) % ec.p
           x == (lam * lam - Q[1] - R[1]) % ec.p
       IN  <<x, (lam * (Q[1] - x) - Q[2]) % ec.p>>

\* the multiples 0*Q, 1*Q, ... of a point: the group has n*h elements
multiples(Q, ec) ==
  LET f[m \in 0..(ec.n * ec.h - 1)] ==
        IF m = 0 THEN INF ELSE add(Q, f[m - 1], ec)
  IN  f

\* all multiples of all points of all curves, as an enumerated table
\* (f @@ <<>> is f)
MultTable ==
  [i \in DOMAIN Curves |->
    [Q \in Points(Curves[i]) \cup {INF} |->
       multiples(Q, Curves[i]) @@ <<>>] @@ <<>>] @@ <<>>

\* m*Q for any integer m and any point Q of the curve
mult(m, Q, ec) ==
  MultTable[ec.id][IF Q[2] = 0 THEN INF ELSE Q][m % (ec.n * ec.h)]

\* u*H + v*Q
double_mult(u, H, v, Q, ec) == add(mult(u, H, ec), mult(v, Q, ec), ec)

(***************************************************************************)
(* Octets are sequences of bytes.  A message enters the model as its       *)
(* digest mhd = hf(msg): the hash function is pluggable and every digest   *)
(* value of the digest size may come out of it.                            *)
(***************************************************************************)
\* the hash functions: digest size in bytes and the mixing constants of the
\* keyed digest that stands for hmac.new(K, data, hf).digest()
HashFs ==
  << [digest_size |-> 1, mul |-> 5, inc |-> 3],
     [digest_size |-> 1, mul |-> 13, inc |-> 0] >>

HashFSet == {HashFs[i] : i \in DOMAIN HashFs}

\* the hf argument's default (sha256 in the source)
DefaultHf == HashFs[1]

RECURSIVE int_from_bytes(_)
int_from_bytes(o) ==
  IF Len(o) = 0 THEN 0
  ELSE 256 * int_from_bytes(SubSeq(o, 1, Len(o) - 1)) + o[Len(o)]

RECURSIVE to_bytes(_, _)
to_bytes(i, size) ==
  IF size = 0 THEN <<>>
  ELSE Append(to_bytes(i \div 256, size - 1), i % 256)

Repeat(byte, size) == [i \in 1..size |-> byte]

\* the digests the callers present, spread over the digest range
Digests(hf) ==
  {to_bytes((i * 2^(8 * hf.digest_size)) \div NumDigests, hf.digest_size) :
     i \in 0..(NumDigests - 1)}

RECURSIVE mix(_, _, _)
mix(acc, data, hf) ==
  IF Len(data) = 0 THEN acc
  ELSE mix((acc * hf.mul + data[1] + hf.inc) % 256, Tail(data), hf)

\* hmac.new(K, data, hf).digest(): a keyed digest of digest_size bytes
hmac_digest(K, data, hf) == to_bytes(mix(0, K \o data, hf), hf.digest_size)

(***************************************************************************)
(* utils._int_from_bits: the leftmost ec.nlen bits of the octets;          *)
(* utils.int_from_bits: the same, reduced mod ec.n.                        *)
(***************************************************************************)
\* mutant: the whole of the octets, the excess low-order bits kept
_int_from_bits_no_shift(o, ec) == int_from_bytes(o)

_int_from_bits(o, ec) ==
  LET i == int_from_bytes(o)
      blen == Len(o) * 8
      shift == IF blen >= nlen(ec) THEN blen - nlen(ec) ELSE 0
  IN  i \div (2^shift)

int_from_bits(o, ec) == _int_from_bits(o, ec) % ec.n

\* utils.int_from_prvkey: the integer q, or the error for q outside [1, n-1]
int_from_prvkey(q, ec) ==
  IF 0 < q /\ q < ec.n THEN [err |-> "none", d |-> q]
  ELSE [err |-> "private key not in [1, n-1]", d |-> 0]

(***************************************************************************)
(* rfc6979._rfc6979                                                        *)
(***************************************************************************)
\* 3.2.h.2: while len(T) < ec.nsize: V = HMAC(K, V); T += V
RECURSIVE fill_T(_, _, _, _, _)
fill_T(K, V, T, ec, hf) ==
  IF Len(T) < nsize(ec)
  THEN LET V1 == hmac_digest(K, V, hf) IN fill_T(K, V1, T \o V1, ec, hf)
  ELSE [V |-> V, T |-> T]

\* mutant: the candidate k = n accepted
RECURSIVE candidate_loop_le_n(_, _, _, _, _)
candidate_loop_le_n(K, V, tries, ec, hf) ==
  LET f == fill_T(K, V, <<>>, ec, hf)
      k == _int_from_bits(f.T, ec)
      K1 == hmac_digest(K, f.V \o <<0>>, hf)
      V1 == hmac_digest(K1, f.V, hf)
  IN  IF 0 < k /\ k <= ec.n
      THEN [err |-> "none", k |-> k, tried |-> MaxTries - tries + 1]
      ELSE IF tries <= 1
      THEN [err |-> "still looping", k |-> k, tried |-> MaxTries]
      ELSE candidate_loop_le_n(K1, V1, tries - 1, ec, hf)

\* 3.2.h: the candidate loop, followed for at most `tries` more candidates;
\* tried counts the candidates built
RECURSIVE candidate_loop(_, _, _, _, _)
candidate_loop(K, V, tries, ec, hf) ==
  LET f == fill_T(K, V, <<>>, ec, hf)
      k == _int_from_bits(f.T, ec)
      K1 == hmac_digest(K, f.V \o <<0>>, hf)
      V1 == hmac_digest(K1, f.V, hf)
  IN  IF 0 < k /\ k < ec.n
      THEN [err |-> "none", k |-> k, tried |-> MaxTries - tries + 1]
      ELSE IF tries <= 1
      THEN [err |-> "still looping", k |-> k, tried |-> MaxTries]
      ELSE candidate_loop(K1, V1, tries - 1, ec, hf)

\* mutant: V is not refreshed after K
update_K_only(K, V, hf) ==
  [K |-> hmac_digest(K, V \o <<0>>, hf), V |-> V]

\* K = HMAC(K, V || 0x00); V = HMAC(K, V) after a rejected candidate
update(K, V, hf) ==
  LET K1 == hmac_digest(K, V \o <<0>>, hf)
  IN  [K |-> K1, V |-> hmac_digest(K1, V, hf)]

\* mutant: the digest left out of the seed
bprvbm_no_digest(c, q, ec) == to_bytes(q, nsize(ec))

\* bprvbm = bprv + bc: the private key and the reduced digest, each
\* encoded over ec.nsize bytes

bprvbm(c, q, ec) == to_bytes(q, nsize(ec)) \o to_bytes(c, nsize(ec))

_rfc6979(c, q, ec, hf) ==
  LET seed == bprvbm(c, q, ec)
      hsize == hf.digest_size
      V0 == Repeat(1, hsize)
      K0 == Repeat(0, hsize)
      K1 == hmac_digest(K0, V0 \o <<0>> \o seed, hf)
      V1 == hmac_digest(K1, V0, hf)
      K2 == hmac_digest(K1, V1 \o <<1>> \o seed, hf)
      V2 == hmac_digest(K2, V1, hf)
  IN  candidate_loop(K2, V2, MaxTries, ec, hf)

\* a call of the generator that raised: no nonce, no candidate built
NonceErr(msg) == [err |-> msg, k |-> 0, tried |-> 0]

\* mutant: the length of the digest is not compared with hf's digest size
rfc6979_no_size_check(mhd, q, ec, hf) ==
  IF ~(0 < q /\ q < ec.n) THEN NonceErr("private key not in [1, n-1]")
  ELSE _rfc6979(int_from_bits(mhd, ec), q, ec, hf)

\* rfc6979.rfc6979: mhd is the digest as octets
rfc6979(mhd, q, ec, hf) ==
  LET hsize == hf.digest_size
  IN  IF ~(0 < q /\ q < ec.n) THEN NonceErr("private key not in [1, n-1]")
      ELSE IF Len(mhd) # hsize
      THEN NonceErr("mismatch between hf digest size and hashed message size")
      ELSE _rfc6979(int_from_bits(mhd, ec), q, ec, hf)

(***************************************************************************)
(* dsa._sign and dsa.sign                                                  *)
(***************************************************************************)
SigErr(msg) == [err |-> msg, r |-> 0, s |-> 0, k |-> 0]

round_half_even(num, unit) ==
  LET quo == num \div unit
      rem == num % unit
  IN  IF 2 * rem > unit \/ (2 * rem = unit /\ quo % 2 = 1)
      THEN (quo + 1) * unit
      ELSE quo * unit

\* twice the float that ec.n / 2 evaluates to: n rounded to the
\* significand's width (to nearest, ties to even)
twice_true_div_2(n) ==
  IF bit_length(n) <= SignificandBits THEN n
  ELSE round_half_even(n, 2^(bit_length(n) - SignificandBits))

\* s > ec.n / 2: an int compared with a float, exactly
above_half(s, ec) == 2 * s > twice_true_div_2(ec.n)

\* mutant: s is not tested for 0
_sign_no_s_check(c, q, k, ec) ==
  LET R == mult(k, ec.G, ec)
      r == R[1] % ec.n
      s == (mod_inv(k, ec.n) * (c + r * q)) % ec.n
  IN  IF R[2] = 0 THEN SigErr("mod_inv of zero")
      ELSE IF r = 0 THEN SigErr("r = 0, failed to sign")
      ELSE [err |-> "none", r |-> r,
            s |-> IF above_half(s, ec) THEN ec.n - s ELSE s, k |-> k]

_sign(c, q, k, ec) ==
  LET R == mult(k, ec.G, ec)
      r == R[1] % ec.n
      s == (mod_inv(k, ec.n) * (c + r * q)) % ec.n
  IN  IF R[2] = 0 THEN SigErr("mod_inv of zero")
      ELSE IF r = 0 THEN SigErr("r = 0, failed to sign")
      ELSE IF s = 0 THEN SigErr("s = 0, failed to sign")
      ELSE [err |-> "none", r |-> r,
            s |-> IF above_half(s, ec) THEN ec.n - s ELSE s, k |-> k]

\* mutant: the ephemeral key taken mod n before the test
ephemeral_key_reduced(k, ec) == 0 < k % ec.n

\* 0 < k < ec.n

ephemeral_key_in_range(k, ec) == 0 < k /\ k < ec.n

\* mutant: the nonce derived from the digest's bits before the reduction mod n
sign_nonce_from_unreduced(mhd, q, k, ec, hf) ==
  LET c == int_from_bits(mhd, ec)
      d == int_from_prvkey(q, ec)
      kk == IF k = None THEN _rfc6979(_int_from_bits(mhd, ec), d.d, ec, hf)
            ELSE [err |-> "none", k |-> k[1]]
  IN  IF d.err # "none" THEN SigErr(d.err)
      ELSE IF kk.err # "none" THEN SigErr(kk.err)
      ELSE IF ~ephemeral_key_in_range(kk.k, ec)
           THEN SigErr("ephemeral key not in [1, n-1]")
      ELSE _sign(c, d.d, kk.k, ec)

\* mhd = hf(msg) is the digest; k = None asks for the RFC6979 nonce.
\* The k field of the result is the ephemeral key the call used.
sign(mhd, q, k, ec, hf) ==
  LET c == int_from_bits(mhd, ec)
      d == int_from_prvkey(q, ec)
      kk == IF k = None THEN _rfc6979(c, d.d, ec, hf)
            ELSE [err |-> "none", k |-> k[1]]
  IN  IF d.err # "none" THEN SigErr(d.err)
      ELSE IF kk.err # "none" THEN SigErr(kk.err)
      ELSE IF ~ephemeral_key_in_range(kk.k, ec)
           THEN SigErr("ephemeral key not in [1, n-1]")
      ELSE _sign(c, d.d, kk.k, ec)

(***************************************************************************)
(* dsa._check_sig, dsa._verhlp, dsa._verify and dsa.verify                 *)
(***************************************************************************)
\* the errors raised by an assert statement; every other error is a
\* ValueError.  Both are subclasses of Exception.
AssertionErrors == {"how did you do that?!?", "Invalid signature"}

_check_sig(r, s, ec) ==
  IF ~(0 < r /\ r < ec.n) THEN "r not in [1, n-1]"
  ELSE IF ~(0 < s /\ s < ec.n) THEN "s not in [1, n-1]"
  ELSE "none"

\* ec.require_on_curve(P)
require_on_curve(P, ec) ==
  IF is_on_curve(P, ec) THEN "none" ELSE "Point not on curve"

\* mutant: the two scalars exchanged, R = u*P + v*G
_verhlp_swapped(c, P, r, s, ec) ==
  LET w == mod_inv(s, ec.n)
      u == c * w
      v == r * w
      R == double_mult(u, P, v, ec.G, ec)
      x == R[1] % ec.n
  IN  IF P[2] = 0 THEN "public key is infinite"
      ELSE IF w = 0 THEN "no inverse"
      ELSE IF R[2] = 0 THEN "how did you do that?!?"
      ELSE IF r # x THEN "Invalid signature"
      ELSE "none"

\* mutant: the last assert left out
_verhlp_no_final_assert(c, P, r, s, ec) ==
  LET w == mod_inv(s, ec.n)
      u == c * w
      v == r * w
      R == double_mult(v, P, u, ec.G, ec)
  IN  IF P[2] = 0 THEN "public key is infinite"
      ELSE IF w = 0 THEN "no inverse"
      ELSE IF R[2] = 0 THEN "how did you do that?!?"
      ELSE "none"

\* mutant: an infinite public key is let through
_verhlp_no_inf_check(c, P, r, s, ec) ==
  LET w == mod_inv(s, ec.n)
      u == c * w
      v == r * w
      R == double_mult(v, P, u, ec.G, ec)
      x == R[1] % ec.n
  IN  IF w = 0 THEN "no inverse"
      ELSE IF R[2] = 0 THEN "how did you do that?!?"
      ELSE IF r # x THEN "Invalid signature"
      ELSE "none"

_verhlp(c, P, r, s, ec) ==
  LET w == mod_inv(s, ec.n)
      u == c * w
      v == r * w
      R == double_mult(v, P, u, ec.G, ec)
      x == R[1] % ec.n
  IN  IF P[2] = 0 THEN "public key is infinite"
      ELSE IF w = 0 THEN "no inverse"
      ELSE IF R[2] = 0 THEN "how did you do that?!?"
      ELSE IF r # x THEN "Invalid signature"
      ELSE "none"

\* mutant: the public key examined before the signature's range
_verify_key_first(mhd, P, sig, ec) ==
  LET r == sig[1]
      s == sig[2]
      c == int_from_bits(mhd, ec)
  IN  IF require_on_curve(P, ec) # "none" THEN require_on_curve(P, ec)
      ELSE IF P[2] = 0 THEN "public key is infinite"
      ELSE IF _check_sig(r, s, ec) # "none" THEN _check_sig(r, s, ec)
      ELSE _verhlp(c, P, r, s, ec)

\* the error _verify raises, "none" when it returns
_verify(mhd, P, sig, ec) ==
  LET r == sig[1]
      s == sig[2]
      c == int_from_bits(mhd, ec)
  IN  IF _check_sig(r, s, ec) # "none" THEN _check_sig(r, s, ec)
      ELSE IF require_on_curve(P, ec) # "none" THEN require_on_curve(P, ec)
      ELSE _verhlp(c, P, r, s, ec)

\* mutant: except ValueError, which lets an AssertionError through
verify_except_ValueError(mhd, P, sig, ec) ==
  LET e == _verify(mhd, P, sig, ec)
  IN  IF e = "none" THEN [raised |-> "none", value |-> TRUE]
      ELSE IF e \in AssertionErrors THEN [raised |-> e, value |-> FALSE]
      ELSE [raised |-> "none", value |-> FALSE]

\* try: _verify(...)  except Exception: return False  else: return True
\* raised names the error that leaves the call, "none" when it returns value.
verify(mhd, P, sig, ec) ==
  LET e == _verify(mhd, P, sig, ec)
  IN  IF e = "none" THEN [raised |-> "none", value |-> TRUE]
      ELSE [raised |-> "none", value |-> FALSE]

(***************************************************************************)
(* dsa._pubkey_recovery and dsa.pubkey_recovery                            *)
(***************************************************************************)
\* ec.y_odd(x, False): the even root of y^2 = x^3 + a*x + b, -1 when x is
\* not the x-coordinate of a curve point (ValueError)
y_even(x, ec) ==
  LET roots == {y \in 0..(ec.p - 1) : (y * y) % ec.p = _y2(x, ec)}
  IN  IF roots = {} THEN -1
      ELSE LET root == CHOOSE y \in roots : TRUE
           IN  IF root % 2 = 0 THEN root ELSE ec.p - root

\* mutant: the candidate appended without the check
try_key_unchecked(keys, c, Q, r, s, ec) == Append(keys, Q)

\* one candidate key: appended when _verhlp does not raise
try_key(keys, c, Q, r, s, ec) ==
  IF _verhlp(c, Q, r, s, ec) = "none" THEN Append(keys, Q) ELSE keys

\* the body of the loop for one j, from the keys found so far
recovery_step(keys, j, c, r, s, ec) ==
  LET r1 == mod_inv(r, ec.n)
      r1s == r1 * s
      r1e == (0 - r1) * c
      x == (r + j * ec.n) % ec.p
      y == y_even(x, ec)
      R == <<x, y>>
      Q1 == double_mult(r1s, R, r1e, ec.G, ec)
      keys1 == try_key(keys, c, Q1, r, s, ec)
      Q2 == double_mult(r1s, opposite(R, ec), r1e, ec.G, ec)
  IN  IF y = -1 THEN keys
      ELSE try_key(keys1, c, Q2, r, s, ec)

\* for j in range(first, ec.h)
RECURSIVE recovery_loop(_, _, _, _, _, _)
recovery_loop(keys, j, c, r, s, ec) ==
  IF j >= ec.h THEN keys
  ELSE recovery_loop(recovery_step(keys, j, c, r, s, ec), j + 1, c, r, s, ec)

_pubkey_recovery(c, r, s, ec) == recovery_loop(<<>>, 0, c, r, s, ec)

\* mutant: an empty list of keys reported as an error
pubkey_recovery_empty_error(mhd, sig, ec) ==
  LET c == int_from_bits(mhd, ec)
      e == _check_sig(sig[1], sig[2], ec)
      keys == _pubkey_recovery(c, sig[1], sig[2], ec)
  IN  IF e # "none" THEN [err |-> e, keys |-> <<>>]
      ELSE IF keys = <<>> THEN [err |-> "no key found", keys |-> <<>>]
      ELSE [err |-> "none", keys |-> keys]

\* mutant: the signature's range is not checked
pubkey_recovery_no_check(mhd, sig, ec) ==
  LET c == int_from_bits(mhd, ec)
  IN  [err |-> "none", keys |-> _pubkey_recovery(c, sig[1], sig[2], ec)]

\* the error pubkey_recovery raises ("none" when it returns) and the list
\* of keys it returns
pubkey_recovery(mhd, sig, ec) ==
  LET c == int_from_bits(mhd, ec)
      e == _check_sig(sig[1], sig[2], ec)
  IN  IF e # "none" THEN [err |-> e, keys |-> <<>>]
      ELSE [err |-> "none", keys |-> _pubkey_recovery(c, sig[1], sig[2], ec)]

(***************************************************************************)
(* pedersen.commit and pedersen.verify, as tests/test_pedersen.py uses     *)
(* them: commit(r, v) is r*G + v*H for the curve's second generator H.     *)
(***************************************************************************)
\* the points second_generator may come out as: finite points other than G
SecondGenerators(ec) ==
  {Q \in Points(ec) : Q[1] <= 1 /\ Q # ec.G} \cup {mult(2, ec.G, ec)}

\* r*G + v*H
commit(r, v, H, ec) == double_mult(v, H, r, ec.G, ec)

\* pedersen.verify(r, v, C): C is the commitment to (r, v)
pedersen_verify(r, v, C, H, ec) == C = commit(r, v, H, ec)

\* mutant: Commit(r1+r2, v1+r2)
summed_opening_v1_r2(r1, v1, r2, v2) == <<r1 + r2, v1 + r2>>

\* the opening of the sum of two commitments: (r1 + r2, v1 + v2)
summed_opening(r1, v1, r2, v2) == <<r1 + r2, v1 + v2>>

(***************************************************************************)
(* bech32.py.  A string is the sequence of the code points of its          *)
(* characters; a bytes object is the sequence of its octets.               *)
(***************************************************************************)
\* "qpzry9x8gf2tvdw0s3jn54khce6mua7l"
ALPHABET ==
  <<113, 112, 122, 114, 121, 57, 120, 56, 103, 102, 50, 116, 118, 100, 119,
    48, 115, 51, 106, 110, 53, 52, 107, 104, 99, 101, 54, 109, 117, 97, 55,
    108>>

\* ord('1'), the separator between hrp and data
Separator == 49

\* a ^ b on non-negative integers, bit by bit
RECURSIVE xor_bits(_, _)
xor_bits(a, b) ==
  IF a = 0 THEN b
  ELSE IF b = 0 THEN a
  ELSE ((a + b) % 2) + 2 * xor_bits(a \div 2, b \div 2)

\* a ^ b for a and b of five bits, at index 32 * a + b + 1 of a sequence
\* (s \o <<>> is s)
xor_table == [i \in 1..1024 |-> xor_bits((i - 1) \div 32, (i - 1) % 32)] \o <<>>

\* a ^ b on non-negative integers, five bits at a time
RECURSIVE xor(_, _)
xor(a, b) ==
  IF a < 32 /\ b < 32 THEN xor_table[32 * a + b + 1]
  ELSE xor_table[32 * (a % 32) + (b % 32) + 1] + 32 * xor(a \div 32, b \div 32)

\* [0x3b6a57b2, 0x26508e6d, 0x1ea119fa, 0x3d4233dd, 0x2a1462b3]
generator == <<996825010, 642813549, 513874426, 1027748829, 705979059>>

\* the inner loop of _polymod from index i on
RECURSIVE polymod_generators(_, _, _)
polymod_generators(chk, top, i) ==
  IF i = 5 THEN chk
  ELSE polymod_generators(
         IF (top \div 2^i) % 2 = 1 THEN xor(chk, generator[i + 1]) ELSE chk,
         top, i + 1)

\* one pass of the outer loop of _polymod: chk after value is read, a
\* function of the two numbers
polymod_value[chk \in Nat, value \in Nat] ==
  LET top == chk \div 2^25
      shifted == xor((chk % 2^25) * 32, value)
  IN  polymod_generators(shifted, top, 0)

\* _polymod(values): chks[i] is chk after i values
_polymod(values) ==
  LET chks[i \in 0..Len(values)] ==
        IF i = 0 THEN 1 ELSE polymod_value[chks[i - 1], values[i]]
  IN  chks[Len(values)]

_hrp_expand(hrp) ==
  [i \in 1..Len(hrp) |-> hrp[i] \div 32] \o <<0>>
    \o [i \in 1..Len(hrp) |-> hrp[i] % 32]

_create_checksum(hrp, data) ==
  LET values == _hrp_expand(hrp) \o data
      polymod == xor(_polymod(values \o <<0, 0, 0, 0, 0, 0>>), 1)
  IN  [i \in 1..6 |-> (polymod \div 2^(5 * (6 - i))) % 32]

\* encode(hrp, data), as the characters of the bytes it returns
bech32_encode(hrp, data) ==
  LET combined == data \o _create_checksum(hrp, data)
  IN  hrp \o <<Separator>> \o [i \in 1..Len(combined) |-> ALPHABET[combined[i] + 1]]

_verify_checksum(hrp, data) == _polymod(_hrp_expand(hrp) \o data) = 1

\* str.lower() and str.upper() on characters of the ASCII range
lower(str) == [i \in 1..Len(str) |-> IF str[i] \in 65..90 THEN str[i] + 32 ELSE str[i]]
upper(str) == [i \in 1..Len(str) |-> IF str[i] \in 97..122 THEN str[i] - 32 ELSE str[i]]

\* mutant: str.find('1'), the position of the first separator
find_first(str) ==
  LET at == {i \in 1..Len(str) : str[i] = Separator}
  IN  IF at = {} THEN -1 ELSE (CHOOSE i \in at : \A j \in at : i <= j) - 1

\* str.rfind('1'): the 0-based position of the last separator, or -1
rfind(str) ==
  LET at == {i \in 1..Len(str) : str[i] = Separator}
  IN  IF at = {} THEN -1 ELSE (CHOOSE i \in at : \A j \in at : j <= i) - 1

\* __ALPHABET.find(x), 0-based, -1 when absent
alphabet_find(x) ==
  LET at == {i \in 1..32 : ALPHABET[i] = x}
  IN  IF at = {} THEN -1 ELSE (CHOOSE i \in at : TRUE) - 1

\* an exception leaving decode: UnicodeDecodeError is a ValueError
DecodeErr(msg) == [err |-> msg, hrp |-> None, data |-> None]

\* mutant: (None, None) is returned when the checksum does not verify
decode_returning_none(isbytes, bech0) ==
  IF isbytes /\ \E i \in 1..Len(bech0) : bech0[i] > 127
  THEN DecodeErr("UnicodeDecodeError")
  ELSE IF \E i \in 1..Len(bech0) : bech0[i] < 33 \/ bech0[i] > 126
  THEN DecodeErr("Bech32 string contains ASCII characters outside printable set [33-126]")
  ELSE IF lower(bech0) # bech0 /\ upper(bech0) # bech0
  THEN DecodeErr("Mixed case Bech32 string")
  ELSE
    LET bech == lower(bech0)
        pos == rfind(bech)
        hrp == SubSeq(bech, 1, pos)
        part == SubSeq(bech, pos + 2, Len(bech))
        data == [i \in 1..Len(part) |-> alphabet_find(part[i])]
    IN  IF pos < 1 THEN DecodeErr("Missing HRP in Bech32 string")
        ELSE IF pos + 7 > Len(bech) THEN DecodeErr("Bech32 checksum length < 6")
        ELSE IF \E i \in 1..Len(part) : alphabet_find(part[i]) = -1
        THEN DecodeErr("Bech32 string data part contains invalid characters")
        ELSE IF _verify_checksum(hrp, data)
        THEN [err |-> "", hrp |-> Some(hrp),
              data |-> Some(SubSeq(data, 1, Len(data) - 6))]
        ELSE [err |-> "", hrp |-> None, data |-> None]

\* decode(bech): bech0 is the argument, isbytes tells a bytes object from a
\* string
decode(isbytes, bech0) ==
  IF isbytes /\ \E i \in 1..Len(bech0) : bech0[i] > 127
  THEN DecodeErr("UnicodeDecodeError")
  ELSE IF \E i \in 1..Len(bech0) : bech0[i] < 33 \/ bech0[i] > 126
  THEN DecodeErr("Bech32 string contains ASCII characters outside printable set [33-126]")
  ELSE IF lower(bech0) # bech0 /\ upper(bech0) # bech0
  THEN DecodeErr("Mixed case Bech32 string")
  ELSE
    LET bech == lower(bech0)
        pos == rfind(bech)
        hrp == SubSeq(bech, 1, pos)
        part == SubSeq(bech, pos + 2, Len(bech))
        data == [i \in 1..Len(part) |-> alphabet_find(part[i])]
    IN  IF pos < 1 THEN DecodeErr("Missing HRP in Bech32 string")
        ELSE IF pos + 7 > Len(bech) THEN DecodeErr("Bech32 checksum length < 6")
        ELSE IF \E i \in 1..Len(part) : alphabet_find(part[i]) = -1
        THEN DecodeErr("Bech32 string data part contains invalid characters")
        ELSE IF _verify_checksum(hrp, data)
        THEN [err |-> "", hrp |-> Some(hrp),
              data |-> Some(SubSeq(data, 1, Len(data) - 6))]
        ELSE DecodeErr("Invalid Bech32 string checksum")

(***************************************************************************)
(* bech32address.py: native SegWit addresses.  A witness program is the    *)
(* sequence of its octets; network.py is not among the sources, its two    *)
(* lists hold the networks and prefixes of BIP173 and of regtest.          *)
(***************************************************************************)
_NETWORKS == <<"mainnet", "testnet", "regtest">>

\* 'bc', 'tb', 'bcrt'
_P2W_PREFIXES == <<<<98, 99>>, <<116, 98>>, <<98, 99, 114, 116>>>>

\* list.index(x): the first position of x, counted from 1; 0 when list.index
\* raises ValueError
index(list, x) ==
  IF \E i \in 1..Len(list) : list[i] = x
  THEN CHOOSE i \in 1..Len(list) : list[i] = x /\ \A j \in 1..(i - 1) : list[j] # x
  ELSE 0

\* the while loop of _convertbits: the values appended while bits >= tobits
RECURSIVE convertbits_while(_, _, _, _)
convertbits_while(acc, bits, ret, tobits) ==
  IF bits >= tobits
  THEN convertbits_while(acc, bits - tobits,
                         Append(ret, (acc \div 2^(bits - tobits)) % 2^tobits), tobits)
  ELSE [bits |-> bits, ret |-> ret]

\* acc = 0, bits = 0, ret = []
convertbits_start == [err |-> "", acc |-> 0, bits |-> 0, ret |-> <<>>]

\* one pass of the for loop of _convertbits: st holds acc, bits and ret, and
\* the error raised so far, which ends the loop
convertbits_value(st, value, frombits, tobits) ==
  IF st.err # "" THEN st
  ELSE IF value < 0 \/ value \div 2^frombits # 0
  THEN [st EXCEPT !.err = "invalid value"]
  ELSE LET acc == (st.acc * 2^frombits + value) % 2^(frombits + tobits - 1)
           w == convertbits_while(acc, st.bits + frombits, st.ret, tobits)
       IN  [err |-> "", acc |-> acc, bits |-> w.bits, ret |-> w.ret]

\* the for loop of _convertbits: sts[i] is the state after i values
convertbits_for(data, frombits, tobits) ==
  LET sts[i \in 0..Len(data)] ==
        IF i = 0 THEN convertbits_start
        ELSE convertbits_value(sts[i - 1], data[i], frombits, tobits)
  IN  sts[Len(data)]

\* _convertbits where pad=True appends nothing for the bits left over
_convertbits_without_padding(data, frombits, tobits, pad) ==
  LET f == convertbits_for(data, frombits, tobits)
      last == (f.acc * 2^(tobits - f.bits)) % 2^tobits
  IN  IF f.err # "" THEN [err |-> f.err, ret |-> <<>>]
      ELSE IF pad
      THEN [err |-> "", ret |-> f.ret]
      ELSE IF f.bits >= frombits \/ last # 0
      THEN [err |-> "failure", ret |-> <<>>]
      ELSE [err |-> "", ret |-> f.ret]

\* _convertbits(data, frombits, tobits, pad): the error raised, or the list
\* returned
_convertbits(data, frombits, tobits, pad) ==
  LET f == convertbits_for(data, frombits, tobits)
      last == (f.acc * 2^(tobits - f.bits)) % 2^tobits
  IN  IF f.err # "" THEN [err |-> f.err, ret |-> <<>>]
      ELSE IF pad
      THEN [err |-> "", ret |-> IF f.bits # 0 THEN Append(f.ret, last) ELSE f.ret]
      ELSE IF f.bits >= frombits \/ last # 0
      THEN [err |-> "failure", ret |-> <<>>]
      ELSE [err |-> "", ret |-> f.ret]

\* _check_witness(witvers, witprog): the error raised, "" when none
_check_witness(witvers, witprog) ==
  LET l == Len(witprog)
  IN  IF witvers = 0
      THEN IF l \notin {20, 32} THEN "witness program length is not 20 or 32" ELSE ""
      ELSE IF witvers > 16 \/ witvers < 0
      THEN "witness version not in [0, 16]"
      ELSE IF l < 2 \/ l > 40 THEN "witness program length not in [2, 40]" ELSE ""

\* b32address_from_witness(wv, wp, network): the error raised, or the
\* characters of the address returned
b32address_from_witness(wv, wp, network) ==
  LET i == index(_NETWORKS, network)
      conv == _convertbits(wp, 8, 5, TRUE)
  IN  IF _check_witness(wv, wp) # "" THEN [err |-> _check_witness(wv, wp), addr |-> <<>>]
      ELSE IF i = 0 THEN [err |-> "ValueError", addr |-> <<>>]
      ELSE IF conv.err # "" THEN [err |-> conv.err, addr |-> <<>>]
      ELSE [err |-> "", addr |-> bech32_encode(_P2W_PREFIXES[i], <<wv>> \o conv.ret)]

WitnessErr(msg) ==
  [err |-> msg, wv |-> -1, wp |-> <<>>, network |-> "", is_script_hash |-> FALSE]

\* witness_from_b32address(b32addr) of a bytes object: the error raised, or
\* the tuple returned
witness_from_b32address(b32addr) ==
  LET d == decode(TRUE, b32addr)
  IN  IF Len(b32addr) > 90 THEN WitnessErr("Bech32 address length > 90")
      ELSE IF d.err # "" THEN WitnessErr(d.err)
      ELSE
        LET hrp == d.hrp[1]
            data == d.data[1]
            i == index(_P2W_PREFIXES, hrp)
            witprog == _convertbits(Tail(data), 5, 8, FALSE)
        IN  IF i = 0 THEN WitnessErr("ValueError")
            ELSE IF Len(data) = 0 THEN WitnessErr("Bech32 address with empty data")
            ELSE IF witprog.err # "" THEN WitnessErr(witprog.err)
            ELSE IF _check_witness(data[1], witprog.ret) # ""
            THEN WitnessErr(_check_witness(data[1], witprog.ret))
            ELSE [err |-> "", wv |-> data[1], wp |-> witprog.ret,
                  network |-> _NETWORKS[i],
                  is_script_hash |-> Len(witprog.ret) # 20]

(***************************************************************************)
(* script_pub_key.py: a script_pub_key and a payload are the sequences of  *)
(* their octets.  script.py, var_bytes.py and utils.py are not among the   *)
(* sources: serialize pushes data of up to 75 octets behind its length and *)
(* longer data behind OP_PUSHDATA1 and its length, var_bytes.deserialize   *)
(* reads a compact-size length and that many octets, fewer when the        *)
(* stream ends, and fails on a stream that has already ended.              *)
(***************************************************************************)
OP_PUSHDATA1 == 76
OP_RETURN == 106
OP_DUP == 118
OP_EQUAL == 135
OP_EQUALVERIFY == 136
OP_HASH160 == 169
OP_CHECKSIG == 172
OP_CHECKMULTISIG == 174

\* octets[start:stop] of Python for 0 <= start and 0 <= stop
slice(octets, start, stop) ==
  SubSeq(octets, start + 1, IF stop > Len(octets) THEN Len(octets) ELSE stop)

\* int.from_bytes(octets, 'little'), where 2^24 stands for every number from
\* 2^24 on: more octets than any stream here holds
RECURSIVE from_little(_)
from_little(octets) ==
  IF Len(octets) = 0 THEN 0
  ELSE LET high == from_little(Tail(octets))
       IN  IF high >= 2^16 THEN 2^24 ELSE octets[1] + 256 * high

\* the data push of script.serialize
op_pushdata(data) ==
  IF Len(data) < 76 THEN <<Len(data)>> \o data
  ELSE <<OP_PUSHDATA1, Len(data)>> \o data

\* bytes_from_octets(payload, sizes): the error raised, "" when none
bytes_from_octets(payload, sizes) ==
  IF Len(payload) \in sizes THEN "" ELSE "invalid size"

\* var_bytes.deserialize(stream): the error raised, or the octets read and
\* the rest of the stream
var_bytes_deserialize(stream) ==
  IF Len(stream) = 0 THEN [err |-> "IndexError", bytes |-> <<>>, rest |-> <<>>]
  ELSE
    LET width == IF stream[1] < 253 THEN 0
                 ELSE IF stream[1] = 253 THEN 2
                 ELSE IF stream[1] = 254 THEN 4 ELSE 8
        i == IF width = 0 THEN stream[1] ELSE from_little(slice(stream, 1, 1 + width))
    IN  [err |-> "", bytes |-> slice(stream, 1 + width, 1 + width + i),
         rest |-> slice(stream, 1 + width + i, Len(stream))]

is_p2pk(script_pub_key) ==
  LET length == Len(script_pub_key)
  IN  /\ length > 34
      /\ length = script_pub_key[1] + 2
      /\ script_pub_key[1] \in {65, 33}
      /\ script_pub_key[length] = OP_CHECKSIG

is_p2pkh(script_pub_key) ==
  /\ Len(script_pub_key) = 25
  /\ slice(script_pub_key, 0, 3) = <<OP_DUP, OP_HASH160, 20>>
  /\ slice(script_pub_key, 23, 25) = <<OP_EQUALVERIFY, OP_CHECKSIG>>

is_p2sh(script_pub_key) ==
  /\ Len(script_pub_key) = 23
  /\ slice(script_pub_key, 0, 2) = <<OP_HASH160, 20>>
  /\ script_pub_key[23] = OP_EQUAL

\* the list comprehension of is_p2ms: the error raised, or the lengths of
\* the pub_keys read and the rest of the stream
RECURSIVE read_pub_keys(_, _)
read_pub_keys(stream, n) ==
  IF n = 0 THEN [err |-> "", lengths |-> <<>>, rest |-> stream]
  ELSE LET pub_key == var_bytes_deserialize(stream)
           others == read_pub_keys(pub_key.rest, n - 1)
       IN  IF pub_key.err # "" THEN [err |-> pub_key.err, lengths |-> <<>>, rest |-> <<>>]
           ELSE IF others.err # "" THEN others
           ELSE [err |-> "", lengths |-> <<Len(pub_key.bytes)>> \o others.lengths,
                 rest |-> others.rest]

\* is_p2ms(script_pub_key): the error raised, or the value returned
is_p2ms(script_pub_key) ==
  LET length == Len(script_pub_key)
      m == script_pub_key[1] - 80
      n == script_pub_key[length - 1] - 80
      pub_keys == read_pub_keys(slice(script_pub_key, 1, length - 2), n)
  IN  IF length < 37 \/ script_pub_key[length] # OP_CHECKMULTISIG
      THEN [err |-> "", value |-> FALSE]
      ELSE IF ~(0 < m /\ m < 17) \/ ~(m <= n /\ n < 17)
      THEN [err |-> "", value |-> FALSE]
      ELSE IF pub_keys.err # "" THEN [err |-> pub_keys.err, value |-> FALSE]
      ELSE IF \E i \in 1..n : pub_keys.lengths[i] \notin {33, 65}
      THEN [err |-> "", value |-> FALSE]
      ELSE [err |-> "", value |-> Len(pub_keys.rest) = 0]

\* mutant: is_nulldata that does not look at the first octet of a short
\* script
is_nulldata_any_first_octet(script_pub_key) ==
  LET length == Len(script_pub_key)
  IN  IF length < 78
      THEN /\ length > 1
           /\ script_pub_key[2] = length - 2
      ELSE /\ 78 < length /\ length < 84
           /\ script_pub_key[1] = OP_RETURN
           /\ script_pub_key[2] = OP_PUSHDATA1
           /\ script_pub_key[3] = length - 3

is_nulldata(script_pub_key) ==
  LET length == Len(script_pub_key)
  IN  IF length < 78
      THEN /\ length > 1
           /\ script_pub_key[1] = OP_RETURN
           /\ script_pub_key[2] = length - 2
      ELSE /\ 78 < length /\ length < 84
           /\ script_pub_key[1] = OP_RETURN
           /\ script_pub_key[2] = OP_PUSHDATA1
           /\ script_pub_key[3] = length - 3

is_p2wpkh(script_pub_key) ==
  Len(script_pub_key) = 22 /\ slice(script_pub_key, 0, 2) = <<0, 20>>

is_p2wsh(script_pub_key) ==
  Len(script_pub_key) = 34 /\ slice(script_pub_key, 0, 2) = <<0, 32>>

ScriptErr(msg) == [err |-> msg, script |-> <<>>]

\* script_pub_key_from_payload(script_type, payload): the error raised, or
\* the script returned
script_pub_key_from_payload(script_type, payload) ==
  IF script_type = "p2ms"
  THEN LET script_pub_key == payload \o <<OP_CHECKMULTISIG>>
       IN  IF is_p2ms(script_pub_key).err # "" THEN ScriptErr(is_p2ms(script_pub_key).err)
           ELSE IF ~is_p2ms(script_pub_key).value THEN ScriptErr("invalid p2ms payload")
           ELSE [err |-> "", script |-> script_pub_key]
  ELSE IF script_type = "nulldata"
  THEN IF Len(payload) > 80 THEN ScriptErr("invalid nulldata script length")
       ELSE [err |-> "", script |-> <<OP_RETURN>> \o op_pushdata(payload)]
  ELSE IF script_type = "p2pk"
  THEN IF bytes_from_octets(payload, {33, 65}) # ""
       THEN ScriptErr(bytes_from_octets(payload, {33, 65}))
       ELSE [err |-> "", script |-> op_pushdata(payload) \o <<OP_CHECKSIG>>]
  ELSE IF script_type = "p2wsh"
  THEN IF bytes_from_octets(payload, {32}) # ""
       THEN ScriptErr(bytes_from_octets(payload, {32}))
       ELSE [err |-> "", script |-> <<0>> \o op_pushdata(payload)]
  ELSE IF script_type = "p2pkh"
  THEN IF bytes_from_octets(payload, {20}) # ""
       THEN ScriptErr(bytes_from_octets(payload, {20}))
       ELSE [err |-> "",
             script |-> <<OP_DUP, OP_HASH160>> \o op_pushdata(payload)
                          \o <<OP_EQUALVERIFY, OP_CHECKSIG>>]
  ELSE IF script_type = "p2sh"
  THEN IF bytes_from_octets(payload, {20}) # ""
       THEN ScriptErr(bytes_from_octets(payload, {20}))
       ELSE [err |-> "", script |-> <<OP_HASH160>> \o op_pushdata(payload) \o <<OP_EQUAL>>]
  ELSE IF script_type = "p2wpkh"
  THEN IF bytes_from_octets(payload, {20}) # ""
       THEN ScriptErr(bytes_from_octets(payload, {20}))
       ELSE [err |-> "", script |-> <<0>> \o op_pushdata(payload)]
  ELSE ScriptErr("unknown script_pub_key type")

Payload(type, payload) == [err |-> "", type |-> type, payload |-> payload]

\* mutant: payload_from_script_pub_key that drops two octets of every
\* nulldata script
payload_dropping_two_octets(script_pub_key) ==
  LET length == Len(script_pub_key)
  IN  IF is_p2wpkh(script_pub_key) THEN Payload("p2wpkh", slice(script_pub_key, 2, length))
      ELSE IF is_p2wsh(script_pub_key) THEN Payload("p2wsh", slice(script_pub_key, 2, length))
      ELSE IF is_p2pk(script_pub_key) THEN Payload("p2pk", slice(script_pub_key, 1, length - 1))
      ELSE IF is_p2ms(script_pub_key).err # ""
      THEN [err |-> is_p2ms(script_pub_key).err, type |-> "", payload |-> <<>>]
      ELSE IF is_p2ms(script_pub_key).value
      THEN Payload("p2ms", slice(script_pub_key, 0, length - 1))
      ELSE IF is_nulldata(script_pub_key)
      THEN Payload("nulldata", slice(script_pub_key, 2, length))
      ELSE IF is_p2pkh(script_pub_key)
      THEN Payload("p2pkh", slice(script_pub_key, 3, length - 2))
      ELSE IF is_p2sh(script_pub_key)
      THEN Payload("p2sh", slice(script_pub_key, 2, length - 1))
      ELSE Payload("unknown", script_pub_key)

\* payload_from_script_pub_key(script_pub_key) of a bytes object: the error
\* raised, or the pair returned
payload_from_script_pub_key(script_pub_key) ==
  LET length == Len(script_pub_key)
  IN  IF is_p2wpkh(script_pub_key) THEN Payload("p2wpkh", slice(script_pub_key, 2, length))
      ELSE IF is_p2wsh(script_pub_key) THEN Payload("p2wsh", slice(script_pub_key, 2, length))
      ELSE IF is_p2pk(script_pub_key) THEN Payload("p2pk", slice(script_pub_key, 1, length - 1))
      ELSE IF is_p2ms(script_pub_key).err # ""
      THEN [err |-> is_p2ms(script_pub_key).err, type |-> "", payload |-> <<>>]
      ELSE IF is_p2ms(script_pub_key).value
      THEN Payload("p2ms", slice(script_pub_key, 0, length - 1))
      ELSE IF is_nulldata(script_pub_key)
      THEN IF length < 78 THEN Payload("nulldata", slice(script_pub_key, 2, length))
           ELSE Payload("nulldata", slice(script_pub_key, 3, length))
      ELSE IF is_p2pkh(script_pub_key)
      THEN Payload("p2pkh", slice(script_pub_key, 3, length - 2))
      ELSE IF is_p2sh(script_pub_key)
      THEN Payload("p2sh", slice(script_pub_key, 2, length - 1))
      ELSE Payload("unknown", script_pub_key)

(***************************************************************************)
(* psbt.py: partially signed transactions.  A bytes object is the sequence *)
(* of its octets and a hex string is given by the octets it denotes, so    *)
(* its len is twice their number.  A dict is the sequence of its (key,     *)
(* value) pairs in insertion order; None, an empty dict and an empty list  *)
(* are the empty sequence.  tx.py, tx_out.py, varint.py and script.py are  *)
(* not among the sources: a Tx is written as the number and the octets of  *)
(* its inputs and of its outputs, a TxOut as its octets behind their       *)
(* number, and a script as one octet per opcode, which script.serialize    *)
(* writes behind their number.                                             *)
(***************************************************************************)
\* varint.encode(i)
varint_encode(i) ==
  IF i < 253 THEN <<i>> ELSE <<253, i % 256, (i \div 256) % 256>>

\* varint.decode(data): the error raised, or the number read
varint_decode(data) ==
  IF Len(data) = 0 THEN [err |-> "IndexError", value |-> 0]
  ELSE LET width == IF data[1] < 253 THEN 0
                    ELSE IF data[1] = 253 THEN 2
                    ELSE IF data[1] = 254 THEN 4 ELSE 8
       IN  [err |-> "",
            value |-> IF width = 0 THEN data[1]
                      ELSE from_little(slice(data, 1, 1 + width))]

\* data[start:]
from(data, start) == slice(data, IF start > Len(data) THEN Len(data) ELSE start, Len(data))

\* Tx.serialize()
tx_serialize(tx) ==
  <<Len(tx.vin)>> \o tx.vin \o <<Len(tx.vout)>> \o tx.vout

\* Tx.deserialize(data): the error raised, or the Tx
tx_deserialize(data) ==
  LET nin == data[1]
      nout == data[2 + nin]
  IN  IF Len(data) < 2 \/ Len(data) < 2 + nin \/ Len(data) # 2 + nin + nout
      THEN [err |-> "Tx.deserialize", tx |-> [vin |-> <<>>, vout |-> <<>>]]
      ELSE [err |-> "", tx |-> [vin |-> slice(data, 1, 1 + nin),
                                vout |-> slice(data, 2 + nin, 2 + nin + nout)]]

\* TxOut.serialize() and TxOut.deserialize(data)
tx_out_serialize(tx_out) == <<Len(tx_out)>> \o tx_out

tx_out_deserialize(data) ==
  IF Len(data) = 0 \/ Len(data) # 1 + data[1]
  THEN [err |-> "TxOut.deserialize", tx_out |-> <<>>]
  ELSE [err |-> "", tx_out |-> Tail(data)]

\* the opcodes of the scripts written, and their octets
OpNames == <<"OP_DUP", "OP_HASH160", "OP_EQUAL", "OP_CHECKSIG">>

OpCodes == <<OP_DUP, OP_HASH160, OP_EQUAL, OP_CHECKSIG>>

\* script.encode(script) of a list of opcodes
script_encode(script) ==
  [i \in 1..Len(script) |-> OpCodes[index(OpNames, script[i])]] \o <<>>

\* script.serialize(script)
script_serialize(script) ==
  varint_encode(Len(script_encode(script))) \o script_encode(script)

\* script.decode(data): the error raised, or the list of opcodes
script_decode(data) ==
  IF \E i \in 1..Len(data) : index(OpCodes, data[i]) = 0
  THEN [err |-> "script.decode", script |-> <<>>]
  ELSE [err |-> "", script |-> [i \in 1..Len(data) |-> OpNames[index(OpCodes, data[i])]] \o <<>>]

\* the concatenation of the octet strings of a list
RECURSIVE join(_)
join(list) == IF Len(list) = 0 THEN <<>> ELSE list[1] \o join(Tail(list))

\* the octets written for one hd_keypath behind the two octets of prefix
hd_keypath_serialize(prefix, hd_keypath) ==
  LET keypath == hd_keypath.fingerprint \o hd_keypath.derivation_path
  IN  prefix \o hd_keypath.xpub \o varint_encode(Len(keypath)) \o keypath

\* the record of a partial signature: len(value) is the len of a hex string
partial_sig_serialize(sig) ==
  <<34, 2>> \o sig.key \o varint_encode(2 * Len(sig.value)) \o sig.value

\* PsbtInput.serialize()
PsbtInput_serialize(self) ==
  (IF self.non_witness_utxo # None
   THEN <<1, 0>> \o varint_encode(Len(tx_serialize(self.non_witness_utxo[1])))
          \o tx_serialize(self.non_witness_utxo[1])
   ELSE <<>>)
  \o (IF self.witness_utxo # None
      THEN <<1, 1>> \o varint_encode(Len(tx_out_serialize(self.witness_utxo[1])))
             \o tx_out_serialize(self.witness_utxo[1])
      ELSE <<>>)
  \o join([i \in 1..Len(self.partial_sigs) |-> partial_sig_serialize(self.partial_sigs[i])])
  \o (IF self.sighash # 0
      THEN <<1, 3, 4>> \o [i \in 1..4 |-> (self.sighash \div 256^(i - 1)) % 256]
      ELSE <<>>)
  \o (IF self.redeem_script # <<>>
      THEN <<1, 4>> \o script_serialize(self.redeem_script) ELSE <<>>)
  \o (IF self.witness_script # <<>>
      THEN <<1, 5>> \o script_serialize(self.witness_script) ELSE <<>>)
  \o join([i \in 1..Len(self.hd_keypaths) |->
             hd_keypath_serialize(<<34, 6>>, self.hd_keypaths[i])])
  \o (IF self.final_script_sig # <<>>
      THEN <<1, 7>> \o script_serialize(self.final_script_sig) ELSE <<>>)
  \o (IF self.por_commitment # <<>>
      THEN <<1, 9>> \o varint_encode(Len(self.por_commitment)) \o self.por_commitment
      ELSE <<>>)

\* PsbtOutput.serialize()
PsbtOutput_serialize(self) ==
  (IF self.redeem_script # <<>>
   THEN <<1, 0>> \o script_serialize(self.redeem_script) ELSE <<>>)
  \o (IF self.witness_script # <<>>
      THEN <<1, 1>> \o script_serialize(self.witness_script) ELSE <<>>)
  \o join([i \in 1..Len(self.hd_keypaths) |->
             hd_keypath_serialize(<<34, 2>>, self.hd_keypaths[i])])

\* the octets Psbt.serialize() hands to b64encode
Psbt_serialize_octets(self) ==
  <<112, 115, 98, 116, 255>>
  \o <<1, 0>> \o varint_encode(Len(tx_serialize(self.tx))) \o tx_serialize(self.tx)
  \o join([i \in 1..Len(self.hd_keypaths) |->
             hd_keypath_serialize(<<79, 1>>, self.hd_keypaths[i])])
  \o <<0>>
  \o join([i \in 1..Len(self.inputs) |-> PsbtInput_serialize(self.inputs[i]) \o <<0>>])
  \o join([i \in 1..Len(self.outputs) |-> PsbtOutput_serialize(self.outputs[i]) \o <<0>>])

\* b64encode(octets), as the indices of its characters in the base64
\* alphabet, 64 for '='
b64encode(octets) ==
  LET at(i) == IF i <= Len(octets) THEN octets[i] ELSE 0
      group(g) == at(3 * g + 1) * 65536 + at(3 * g + 2) * 256 + at(3 * g + 3)
  IN  [j \in 1..(4 * ((Len(octets) + 2) \div 3)) |->
         LET g == (j - 1) \div 4
             pos == (j - 1) % 4
         IN  IF pos >= 2 /\ 3 * g + pos > Len(octets) THEN 64
             ELSE (group(g) \div 64^(3 - pos)) % 64] \o <<>>

\* b64decode(string) of a string b64encode returns
b64decode(string) ==
  LET pad == Cardinality({j \in 1..Len(string) : string[j] = 64})
      group(g) == (string[4 * g + 1] % 64) * 262144 + (string[4 * g + 2] % 64) * 4096
                    + (string[4 * g + 3] % 64) * 64 + (string[4 * g + 4] % 64)
  IN  [i \in 1..(3 * (Len(string) \div 4) - pad) |->
         (group((i - 1) \div 3) \div 256^(2 - ((i - 1) % 3))) % 256] \o <<>>

\* Psbt.serialize()
Psbt_serialize(self) == b64encode(Psbt_serialize_octets(self))

\* does the dict hold the key
has_key(map, key) == \E i \in 1..Len(map) : map[i].key = key

\* the while loop of deserialize_map: the error raised, or the dict and the
\* data left
RECURSIVE deserialize_map_loop(_, _)
deserialize_map_loop(partial_map, data) ==
  IF Len(data) = 0 THEN [err |-> "", map |-> partial_map, data |-> data]
  ELSE IF data[1] = 0 THEN [err |-> "", map |-> partial_map, data |-> Tail(data)]
  ELSE
    LET key_len == varint_decode(data)
        data1 == from(data, Len(varint_encode(key_len.value)))
        key == slice(data1, 0, key_len.value)
        data2 == from(data1, key_len.value)
        value_len == varint_decode(data2)
        data3 == from(data2, Len(varint_encode(value_len.value)))
        value == slice(data3, 0, value_len.value)
        data4 == from(data3, value_len.value)
    IN  IF value_len.err # "" THEN [err |-> value_len.err, map |-> <<>>, data |-> <<>>]
        ELSE IF has_key(partial_map, key)
        THEN [err |-> "Malformed psbt: duplicate keys", map |-> <<>>, data |-> <<>>]
        ELSE deserialize_map_loop(Append(partial_map, [key |-> key, value |-> value]), data4)

\* deserialize_map(data)
deserialize_map(data) ==
  IF Len(data) = 0
  THEN [err |-> "Malformed psbt: at least a map is missing", map |-> <<>>, data |-> <<>>]
  ELSE deserialize_map_loop(<<>>, data)

\* PsbtInput() with the defaults of decode
EmptyInput ==
  [non_witness_utxo |-> None, witness_utxo |-> None, partial_sigs |-> <<>>, sighash |-> 0,
   redeem_script |-> <<>>, witness_script |-> <<>>, hd_keypaths |-> <<>>,
   final_script_sig |-> <<>>, por_commitment |-> <<>>]

\* the hd_keypath decoded from a record
hd_keypath_decode(key, value) ==
  [xpub |-> Tail(key), fingerprint |-> slice(value, 0, 4),
   derivation_path |-> from(value, 4)]

\* the for loop of PsbtInput.decode over the records still to be read: the
\* error raised, or the PsbtInput
RECURSIVE PsbtInput_decode_loop(_, _)
PsbtInput_decode_loop(out_map, input_map) ==
  IF Len(input_map) = 0 THEN [err |-> "", value |-> out_map]
  ELSE
    LET key == input_map[1].key
        value == input_map[1].value
        then(next) == PsbtInput_decode_loop(next, Tail(input_map))
        fail(msg) == [err |-> msg, value |-> EmptyInput]
    IN  IF key = <<0>>
        THEN IF tx_deserialize(value).err # "" THEN fail(tx_deserialize(value).err)
             ELSE then([out_map EXCEPT !.non_witness_utxo = Some(tx_deserialize(value).tx)])
        ELSE IF key = <<1>>
        THEN IF tx_out_deserialize(value).err # "" THEN fail(tx_out_deserialize(value).err)
             ELSE then([out_map EXCEPT
                          !.witness_utxo = Some(tx_out_deserialize(value).tx_out)])
        ELSE IF key[1] = 2
        THEN IF Len(key) # 33 + 1 THEN fail("AssertionError")
             ELSE then([out_map EXCEPT
                          !.partial_sigs = Append(@, [key |-> Tail(key), value |-> value])])
        ELSE IF key = <<3>>
        THEN IF Len(value) # 4 THEN fail("AssertionError")
             ELSE then([out_map EXCEPT !.sighash = from_little(value)])
        ELSE IF key = <<4>>
        THEN IF script_decode(value).err # "" THEN fail(script_decode(value).err)
             ELSE then([out_map EXCEPT !.redeem_script = script_decode(value).script])
        ELSE IF key = <<5>>
        THEN IF script_decode(value).err # "" THEN fail(script_decode(value).err)
             ELSE then([out_map EXCEPT !.witness_script = script_decode(value).script])
        ELSE IF key[1] = 6
        THEN IF Len(key) # 33 + 1 \/ Len(value) % 4 # 0 THEN fail("AssertionError")
             ELSE then([out_map EXCEPT
                          !.hd_keypaths = Append(@, hd_keypath_decode(key, value))])
        ELSE IF key = <<7>>
        THEN IF script_decode(value).err # "" THEN fail(script_decode(value).err)
             ELSE then([out_map EXCEPT !.final_script_sig = script_decode(value).script])
        ELSE IF key = <<8>>
        THEN IF script_decode(value).err # "" THEN fail(script_decode(value).err)
             ELSE then(out_map)
        ELSE IF key = <<9>> THEN then([out_map EXCEPT !.por_commitment = value])
        ELSE IF key[1] = 252 THEN then(out_map)
        ELSE fail("KeyError")

PsbtInput_decode(input_map) == PsbtInput_decode_loop(EmptyInput, input_map)

\* PsbtOutput() with the defaults of decode
EmptyOutput == [redeem_script |-> <<>>, witness_script |-> <<>>, hd_keypaths |-> <<>>]

\* the for loop of PsbtOutput.decode over the records still to be read
RECURSIVE PsbtOutput_decode_loop(_, _)
PsbtOutput_decode_loop(out_map, output_map) ==
  IF Len(output_map) = 0 THEN [err |-> "", value |-> out_map]
  ELSE
    LET key == output_map[1].key
        value == output_map[1].value
        then(next) == PsbtOutput_decode_loop(next, Tail(output_map))
        fail(msg) == [err |-> msg, value |-> EmptyOutput]
    IN  IF key = <<0>>
        THEN IF script_decode(value).err # "" THEN fail(script_decode(value).err)
             ELSE then([out_map EXCEPT !.redeem_script = script_decode(value).script])
        ELSE IF key = <<1>>
        THEN IF script_decode(value).err # "" THEN fail(script_decode(value).err)
             ELSE then([out_map EXCEPT !.witness_script = script_decode(value).script])
        ELSE IF key[1] = 2
        THEN IF Len(key) # 33 + 1 \/ Len(value) % 4 # 0 THEN fail("AssertionError")
             ELSE then([out_map EXCEPT
                          !.hd_keypaths = Append(@, hd_keypath_decode(key, value))])
        ELSE IF key[1] = 252 THEN then(out_map)
        ELSE fail("KeyError")

PsbtOutput_decode(output_map) == PsbtOutput_decode_loop(EmptyOutput, output_map)

\* the for loop of Psbt.deserialize over global_map: the error raised, or
\* tx (None while unbound) and hd_keypaths
RECURSIVE global_loop(_, _)
global_loop(found, global_map) ==
  IF Len(global_map) = 0 THEN found
  ELSE
    LET key == global_map[1].key
        value == global_map[1].value
        then(next) == global_loop(next, Tail(global_map))
        fail(msg) == [err |-> msg, tx |-> None, hd_keypaths |-> <<>>]
    IN  IF key = <<0>>
        THEN IF tx_deserialize(value).err # "" THEN fail(tx_deserialize(value).err)
             ELSE then([found EXCEPT !.tx = Some(tx_deserialize(value).tx)])
        ELSE IF key[1] = 1
        THEN IF Len(key) # 78 + 1 \/ Len(value) % 4 # 0 THEN fail("AssertionError")
             ELSE then([found EXCEPT
                          !.hd_keypaths = Append(@, hd_keypath_decode(key, value))])
        ELSE IF key[1] = 251
        THEN IF Len(value) # 32 THEN fail("AssertionError") ELSE then(found)
        ELSE IF key[1] = 252 THEN then(found)
        ELSE fail("KeyError")

\* the two for loops of Psbt.deserialize over the maps of the inputs and of
\* the outputs: the error raised, or the maps decoded and the data left
RECURSIVE maps_loop(_, _, _)
maps_loop(isinput, count, data) ==
  IF count = 0 THEN [err |-> "", maps |-> <<>>, data |-> data]
  ELSE
    LET split == deserialize_map(data)
        decoded == IF isinput THEN PsbtInput_decode(split.map)
                   ELSE PsbtOutput_decode(split.map)
        others == maps_loop(isinput, count - 1, split.data)
    IN  IF split.err # "" THEN [err |-> split.err, maps |-> <<>>, data |-> <<>>]
        ELSE IF decoded.err # "" THEN [err |-> decoded.err, maps |-> <<>>, data |-> <<>>]
        ELSE IF others.err # "" THEN others
        ELSE [err |-> "", maps |-> <<decoded.value>> \o others.maps, data |-> others.data]

PsbtErr(msg) ==
  [err |-> msg,
   psbt |-> [tx |-> [vin |-> <<>>, vout |-> <<>>], inputs |-> <<>>, outputs |-> <<>>,
             hd_keypaths |-> <<>>]]

\* Psbt.deserialize(string): the error raised, or the Psbt
Psbt_deserialize(string) ==
  LET data == b64decode(string)
      global == deserialize_map(from(data, 5))
      found == global_loop([err |-> "", tx |-> None, hd_keypaths |-> <<>>], global.map)
      inputs == maps_loop(TRUE, Len(found.tx[1].vin), global.data)
      outputs == maps_loop(FALSE, Len(found.tx[1].vout), inputs.data)
  IN  IF slice(data, 0, 5) # <<112, 115, 98, 116, 255>>
      THEN PsbtErr("Malformed psbt: missing magic bytes")
      ELSE IF global.err # "" THEN PsbtErr(global.err)
      ELSE IF found.err # "" THEN PsbtErr(found.err)
      ELSE IF found.tx = None THEN PsbtErr("UnboundLocalError")
      ELSE IF inputs.err # "" THEN PsbtErr(inputs.err)
      ELSE IF outputs.err # "" THEN PsbtErr(outputs.err)
      ELSE [err |-> "",
            psbt |-> [tx |-> found.tx[1], inputs |-> inputs.maps,
                      outputs |-> outputs.maps, hd_keypaths |-> found.hd_keypaths]]

(***************************************************************************)
(* State: one session of calls on a curve.  Each call is recorded with     *)
(* its arguments and its result.                                           *)
(***************************************************************************)
VARIABLES
  curve, \* the curve of the session
  op,    \* the last call made
  sgn,   \* sign(mhd, q, k, ec, hf) and its result
  sgn2,  \* a second sign call with the same key
  ver,   \* verify(mhd, P, sig, ec) and its result
  rec,   \* pubkey_recovery(mhd, sig, ec) and its result
  non,   \* _rfc6979(c, q, ec, hf) and its result
  calls, \* the calls in progress, one per thread: arguments, position, the
         \* local variables c and k, and the result
  ped,   \* the commitments of test_commitment and what it compares
  dec,   \* the argument and the outcome of the last bech32.decode
  gen,   \* a run of _rfc6979 statement by statement: position, K, V, T,
         \* the candidates built and the number of updates of K and V
  rl,    \* a run of _pubkey_recovery iteration by iteration: position, j
         \* and the keys found so far
  adr,   \* b32address_from_witness(wv, wp, network), its result and what
         \* witness_from_b32address makes of it
  spk,   \* a script_pub_key, the payload it was built from and what the
         \* recognizers and payload_from_script_pub_key make of it
  pst    \* a Psbt, its serialization and what deserialize makes of it

vars == <<curve, op, sgn, sgn2, ver, rec, non, calls, ped, dec, gen, rl, adr, spk, pst>>

\* the threads that call into the library concurrently
Threads == 1..NumThreads

\* no call in progress
Idle ==
  [fn |-> "none", pc |-> "idle", mhd |-> <<>>, q |-> 0, P |-> INF,
   sig |-> <<0, 0>>, c |-> 0, k |-> 0, res |-> [err |-> "pending"]]

NoSign == [mhd |-> <<>>, q |-> 0, k |-> None, hf |-> DefaultHf, res |-> SigErr("not called")]
NoVerify == [mhd |-> <<>>, P |-> INF, sig |-> <<0, 0>>, res |-> [raised |-> "not called", value |-> FALSE]]
NoRecovery == [mhd |-> <<>>, sig |-> <<0, 0>>, res |-> [err |-> "not called", keys |-> <<>>]]
NoNonce == [c |-> 0, q |-> 0, hf |-> DefaultHf, res |-> [err |-> "not called", k |-> 0, tried |-> 0]]

NoLoop == [pc |-> "idle", c |-> 0, r |-> 0, s |-> 0, j |-> 0, keys |-> <<>>]

NoRun ==
  [pc |-> "idle", c |-> 0, q |-> 0, hf |-> DefaultHf, K |-> <<>>, V |-> <<>>,
   T |-> <<>>, V0 |-> <<>>, k |-> 0, cands |-> <<>>, updates |-> 0,
   over |-> FALSE]

NoDecode == [isbytes |-> FALSE, s |-> <<>>, res |-> [err |-> "pending"]]

NoCommitment ==
  [H |-> INF, r1 |-> 0, v1 |-> 0, r2 |-> 0, v2 |-> 0, C1 |-> INF, C2 |-> INF,
   ok1 |-> FALSE, ok2 |-> FALSE, R |-> INF, sum |-> INF]

NoAddress ==
  [wv |-> -1, wp |-> <<>>, network |-> "", err |-> "", addr |-> <<>>,
   res |-> WitnessErr("")]

NoScript ==
  [type |-> "", payload |-> <<>>, err |-> "", script |-> <<>>,
   res |-> Payload("", <<>>)]

NoPsbt == [psbt |-> PsbtErr("").psbt, string |-> <<>>, res |-> PsbtErr("")]

Init ==
  /\ curve \in CurveSet
  /\ op = "init"
  /\ sgn = NoSign
  /\ sgn2 = NoSign
  /\ ver = NoVerify
  /\ rec = NoRecovery
  /\ non = NoNonce
  /\ calls = [t \in Threads |-> Idle]
  /\ ped = NoCommitment
  /\ dec = NoDecode
  /\ gen = NoRun
  /\ rl = NoLoop
  /\ adr = NoAddress
  /\ spk = NoScript
  /\ pst = NoPsbt

\* a curve whose order takes two octets: nsize = 2 with one-octet digests
WideCurve ==
  [id |-> 5, p |-> 251, a |-> 1, b |-> 4, G |-> <<0, 2>>, n |-> 271, h |-> 1]

\* the state after construction for runs of the nonce generator alone
InitWide ==
  /\ curve \in CurveSet \cup {WideCurve}
  /\ op = "init"
  /\ sgn = NoSign
  /\ sgn2 = NoSign
  /\ ver = NoVerify
  /\ rec = NoRecovery
  /\ non = NoNonce
  /\ calls = [t \in Threads |-> Idle]
  /\ ped = NoCommitment
  /\ dec = NoDecode
  /\ gen = NoRun
  /\ rl = NoLoop
  /\ adr = NoAddress
  /\ spk = NoScript
  /\ pst = NoPsbt

\* the nonce arguments callers pass: None, and every k from -1 to n+1
NonceArgs(e) == {None} \cup {Some(k) : k \in (-1)..(e.n + 1)}

\* sign(msg, q, k, ec, hf) with any digest, any q in [0, n] and any nonce
\* argument; another hf than the default is passed with k = None only
Sign ==
  /\ op = "init"
  /\ \E hf \in HashFSet, q \in 0..curve.n, k \in NonceArgs(curve) :
       /\ (k # None => hf = DefaultHf)
       /\ \E mhd \in Digests(hf) :
            sgn' = [mhd |-> mhd, q |-> q, k |-> k, hf |-> hf,
                    res |-> sign(mhd, q, k, curve, hf)]
  /\ op' = "sign"
  /\ UNCHANGED <<pst, spk, adr, rl, gen, dec, ped, calls, curve, sgn2, ver, rec, non>>

Signed == sgn.res.err = "none"

\* a second message signed with the same key and the derived nonce
Sign2 ==
  /\ op = "sign"
  /\ Signed
  /\ sgn.k = None
  /\ \E mhd \in Digests(sgn.hf) :
       sgn2' = [mhd |-> mhd, q |-> sgn.q, k |-> None, hf |-> sgn.hf,
                res |-> sign(mhd, sgn.q, None, curve, sgn.hf)]
  /\ op' = "sign2"
  /\ UNCHANGED <<pst, spk, adr, rl, gen, dec, ped, calls, curve, sgn, ver, rec, non>>

\* the message of a sign without nonce signed again, with the nonce that
\* rfc6979(hf(msg), q, ec, hf) returns passed as k; an error of rfc6979 is
\* the error of the second call
SignDerived ==
  /\ op = "sign"
  /\ sgn.k = None
  /\ LET kd == rfc6979(sgn.mhd, sgn.q, curve, sgn.hf)
     IN  sgn2' = [mhd |-> sgn.mhd, q |-> sgn.q, hf |-> sgn.hf,
                  k |-> IF kd.err = "none" THEN Some(kd.k) ELSE None,
                  res |-> IF kd.err = "none"
                          THEN sign(sgn.mhd, sgn.q, Some(kd.k), curve, sgn.hf)
                          ELSE SigErr(kd.err)]
  /\ op' = "sign_derived"
  /\ UNCHANGED <<pst, spk, adr, rl, gen, dec, ped, calls, curve, sgn, ver, rec, non>>

NextDerived == Sign \/ SignDerived

SpecDerived == Init /\ [][NextDerived]_vars

(***************************************************************************)
(* _rfc6979 one statement at a time.  k is the candidate last built, V0   *)
(* is V when T was last emptied.  cands lists the first MaxTries           *)
(* candidates and updates counts the updates of K and V up to MaxTries;    *)
(* over tells that more candidates were built than cands holds.            *)
(***************************************************************************)
\* a hash function whose digest is the last octet it was fed
LastOctetHf == [digest_size |-> 1, mul |-> 0, inc |-> 0]

\* the hash functions the generator is run with
GenHashFs == HashFSet \cup {LastOctetHf}

\* 3.2.a to 3.2.g: K and V seeded with the private key and the digest
GenStart ==
  /\ op = "init"
  /\ gen.pc = "idle"
  /\ \E hf \in GenHashFs, mhd \in Digests(DefaultHf), q \in 1..(curve.n - 1) :
       LET c == int_from_bits(mhd, curve)
           seed == bprvbm(c, q, curve)
           V0 == Repeat(1, hf.digest_size)
           K0 == Repeat(0, hf.digest_size)
           K1 == hmac_digest(K0, V0 \o <<0>> \o seed, hf)
           V1 == hmac_digest(K1, V0, hf)
           K2 == hmac_digest(K1, V1 \o <<1>> \o seed, hf)
           V2 == hmac_digest(K2, V1, hf)
       IN  gen' = [pc |-> "reset", c |-> c, q |-> q, hf |-> hf, K |-> K2,
                   V |-> V2, T |-> <<>>, V0 |-> V2, k |-> 0, cands |-> <<>>,
                   updates |-> 0, over |-> FALSE]
  /\ op' = "_rfc6979"
  /\ UNCHANGED <<pst, spk, adr, rl, curve, sgn, sgn2, ver, rec, non, calls, ped, dec>>

\* 3.2.h.1: T = b''
GenReset ==
  /\ gen.pc = "reset"
  /\ gen' = [gen EXCEPT !.pc = "fill", !.T = <<>>, !.V0 = gen.V]
  /\ UNCHANGED <<pst, spk, adr, rl, curve, op, sgn, sgn2, ver, rec, non, calls, ped, dec>>

\* 3.2.h.2, one iteration: V = HMAC(K, V); T += V
GenFill ==
  /\ gen.pc = "fill"
  /\ Len(gen.T) < nsize(curve)
  /\ LET V1 == hmac_digest(gen.K, gen.V, gen.hf)
     IN  gen' = [gen EXCEPT !.V = V1, !.T = gen.T \o V1]
  /\ UNCHANGED <<pst, spk, adr, rl, curve, op, sgn, sgn2, ver, rec, non, calls, ped, dec>>

\* 3.2.h.3: the candidate is built and returned when it is in [1, n-1]
GenCandidate ==
  /\ gen.pc = "fill"
  /\ Len(gen.T) >= nsize(curve)
  /\ LET k == _int_from_bits(gen.T, curve)
         recorded == Len(gen.cands) < MaxTries
     IN  gen' = [gen EXCEPT
                   !.k = k,
                   !.cands = IF recorded THEN Append(gen.cands, k) ELSE gen.cands,
                   !.over = ~recorded,
                   !.pc = IF 0 < k /\ k < curve.n THEN "returned" ELSE "update"]
  /\ UNCHANGED <<pst, spk, adr, rl, curve, op, sgn, sgn2, ver, rec, non, calls, ped, dec>>

\* the two statements after a rejected candidate
GenUpdate ==
  /\ gen.pc = "update"
  /\ LET KV == update(gen.K, gen.V, gen.hf)
     IN  gen' = [gen EXCEPT !.pc = "reset", !.K = KV.K, !.V = KV.V,
                           !.updates = IF gen.updates < MaxTries
                                       THEN gen.updates + 1 ELSE gen.updates]
  /\ UNCHANGED <<pst, spk, adr, rl, curve, op, sgn, sgn2, ver, rec, non, calls, ped, dec>>

\* the statements of the candidate loop
GenRun == GenReset \/ GenFill \/ GenCandidate \/ GenUpdate

NextGen == GenStart \/ GenRun

SpecGen == InitWide /\ [][NextGen]_vars

(***************************************************************************)
(* _pubkey_recovery one iteration of `for j in range(ec.h)` at a time.     *)
(***************************************************************************)
\* the call, with r and s in [1, n-1] as pubkey_recovery has checked them
RecLoopStart ==
  /\ op = "init"
  /\ rl.pc = "idle"
  /\ curve \in CurveSet
  /\ \E mhd \in Digests(DefaultHf), r \in 1..(curve.n - 1), s \in 1..(curve.n - 1) :
       rl' = [pc |-> "loop", c |-> int_from_bits(mhd, curve), r |-> r, s |-> s,
              j |-> 0, keys |-> <<>>]
  /\ op' = "_pubkey_recovery"
  /\ UNCHANGED <<pst, spk, adr, curve, sgn, sgn2, ver, rec, non, calls, ped, dec, gen>>

\* the body of the loop for the next j
RecLoopStep ==
  /\ rl.pc = "loop"
  /\ rl.j < curve.h
  /\ rl' = [rl EXCEPT !.j = rl.j + 1,
                      !.keys = recovery_step(rl.keys, rl.j, rl.c, rl.r, rl.s, curve)]
  /\ UNCHANGED <<pst, spk, adr, curve, op, sgn, sgn2, ver, rec, non, calls, ped, dec, gen>>

\* range(ec.h) is exhausted: return keys
RecLoopReturn ==
  /\ rl.pc = "loop"
  /\ rl.j >= curve.h
  /\ rl' = [rl EXCEPT !.pc = "returned"]
  /\ UNCHANGED <<pst, spk, adr, curve, op, sgn, sgn2, ver, rec, non, calls, ped, dec, gen>>

\* the statements of the recovery loop
RecLoopRun == RecLoopStep \/ RecLoopReturn

NextRecLoop == RecLoopStart \/ RecLoopRun

\* the two loops of the library; a run of the candidate loop that has
\* started goes on to its next statement
NextTerm == NextGen \/ NextRecLoop

SpecTerm == Init /\ [][NextTerm]_vars /\ WF_vars(GenRun)

\* the public key of the signer
PubKey == mult(sgn.q, curve.G, curve)

\* verify(msg, d*G, sign(msg, d))
VerifyOwn ==
  /\ op = "sign"
  /\ Signed
  /\ LET sig == <<sgn.res.r, sgn.res.s>>
     IN  ver' = [mhd |-> sgn.mhd, P |-> PubKey, sig |-> sig,
                 res |-> verify(sgn.mhd, PubKey, sig, curve)]
  /\ op' = "verify_own"
  /\ UNCHANGED <<pst, spk, adr, rl, gen, dec, ped, calls, curve, sgn, sgn2, rec, non>>

\* verify(msg2, d*G, sign(msg, d)) for another digest
VerifyTampered ==
  /\ op = "sign"
  /\ Signed
  /\ \E mhd \in Digests(sgn.hf) \ {sgn.mhd} :
       LET sig == <<sgn.res.r, sgn.res.s>>
       IN  ver' = [mhd |-> mhd, P |-> PubKey, sig |-> sig,
                   res |-> verify(mhd, PubKey, sig, curve)]
  /\ op' = "verify_tampered"
  /\ UNCHANGED <<pst, spk, adr, rl, gen, dec, ped, calls, curve, sgn, sgn2, rec, non>>

\* the points callers pass as public key: the curve's points, the point at
\* infinity and pairs that are not on the curve
PointArgs(e) ==
  Points(e) \cup {INF} \cup
  {Q \in (0..1) \X (1..2) : ~is_on_curve(Q, e)} \cup {<<0, e.p>>}

\* verify(msg, P, (r, s)) with any arguments
Verify ==
  /\ op = "init"
  /\ \E mhd \in Digests(DefaultHf), P \in PointArgs(curve),
        r \in (-1)..curve.n, s \in (-1)..curve.n :
       ver' = [mhd |-> mhd, P |-> P, sig |-> <<r, s>>,
               res |-> verify(mhd, P, <<r, s>>, curve)]
  /\ op' = "verify"
  /\ UNCHANGED <<pst, spk, adr, rl, gen, dec, ped, calls, curve, sgn, sgn2, rec, non>>

\* pubkey_recovery(msg, sign(msg, d))
RecoverOwn ==
  /\ op = "sign"
  /\ Signed
  /\ LET sig == <<sgn.res.r, sgn.res.s>>
     IN  rec' = [mhd |-> sgn.mhd, sig |-> sig,
                 res |-> pubkey_recovery(sgn.mhd, sig, curve)]
  /\ op' = "recover_own"
  /\ UNCHANGED <<pst, spk, adr, rl, gen, dec, ped, calls, curve, sgn, sgn2, ver, non>>

\* pubkey_recovery(msg, (r, s)) with any digest and any r, s in [-1, n]
Recover ==
  /\ op = "init"
  /\ \E mhd \in Digests(DefaultHf), r \in (-1)..curve.n, s \in (-1)..curve.n :
       rec' = [mhd |-> mhd, sig |-> <<r, s>>,
               res |-> pubkey_recovery(mhd, <<r, s>>, curve)]
  /\ op' = "recover"
  /\ UNCHANGED <<pst, spk, adr, rl, gen, dec, ped, calls, curve, sgn, sgn2, ver, non>>

\* _rfc6979(c, q, ec, hf) with c in [0, n-1] and q in [1, n-1]
Nonce ==
  /\ op = "init"
  /\ \E hf \in HashFSet, c \in 0..(curve.n - 1), q \in 1..(curve.n - 1) :
       non' = [c |-> c, q |-> q, hf |-> hf, res |-> _rfc6979(c, q, curve, hf)]
  /\ op' = "nonce"
  /\ UNCHANGED <<pst, spk, adr, rl, gen, dec, ped, calls, curve, sgn, sgn2, ver, rec>>

Next == Sign \/ Sign2 \/ VerifyOwn \/ RecoverOwn \/ Nonce

Spec == Init /\ [][Next]_vars

\* signatures verified against other messages
NextTamper == Sign \/ VerifyTampered

SpecTamper == Init /\ [][NextTamper]_vars

\* verification of arbitrary arguments
NextVerify == Verify

SpecVerify == Init /\ [][NextVerify]_vars

\* the octets callers pass as digest: every length from 0 to MaxOctets
OctetArgs ==
  UNION {[1..len -> {0, 128, 255}] : len \in 0..MaxOctets}
    \cup Digests(DefaultHf)

\* rfc6979(mhd, q, ec, hf) with octets of any length and any q in [0, n]
Rfc6979 ==
  /\ op = "init"
  /\ \E hf \in HashFSet, mhd \in OctetArgs, q \in 0..curve.n :
       non' = [mhd |-> mhd, q |-> q, hf |-> hf,
               res |-> rfc6979(mhd, q, curve, hf)]
  /\ op' = "rfc6979"
  /\ UNCHANGED <<pst, spk, adr, rl, gen, dec, ped, calls, curve, sgn, sgn2, ver, rec>>

(***************************************************************************)
(* Concurrent callers.  A call runs in three steps, in the order of the     *)
(* statements of its function; the steps of the threads interleave.  Each   *)
(* step reads the curve and the call's own local variables.                *)
(***************************************************************************)
\* the messages, the key and the signatures the concurrent callers use
ConcDigests == {<<0>>, <<128>>}
ConcKey == 1
ConcSigs(e) ==
  LET own == sign(<<0>>, ConcKey, None, e, DefaultHf)
  IN  {<<own.r, own.s>>, <<1, 1>>}

\* mutant: the local variables of every call kept in one place
frame_shared(t) == 1

\* the frame that holds the local variables of thread t's call: its own
frame(t) == t

\* thread t calls sign, verify or pubkey_recovery
Call(t) ==
  /\ calls[t].pc = "idle"
  /\ \E fn \in {"sign", "verify", "pubkey_recovery"},
        mhd \in ConcDigests, sig \in ConcSigs(curve) :
       /\ (fn = "sign" => sig = <<1, 1>>)
       /\ calls' = [calls EXCEPT ![t] =
            [Idle EXCEPT !.fn = fn, !.pc = "s1", !.mhd = mhd, !.q = ConcKey,
                         !.P = mult(ConcKey, curve.G, curve), !.sig = sig]]
  /\ UNCHANGED <<pst, spk, adr, rl, gen, curve, op, sgn, sgn2, ver, rec, non, ped, dec>>

\* thread t's call returns res (or raises the error res tells)
Return(t, res) == [calls EXCEPT ![t].pc = "done", ![t].res = res]

\* sign, pubkey_recovery: c = int_from_bits(mhd, ec)
\* _verify: _check_sig(r, s, ec)
Step1(t) ==
  /\ calls[t].pc = "s1"
  /\ LET call == calls[t]
         e == _check_sig(call.sig[1], call.sig[2], curve)
     IN  calls' =
           IF call.fn = "verify"
           THEN IF e # "none"
                THEN Return(t, [raised |-> "none", value |-> FALSE])
                ELSE [calls EXCEPT ![t].pc = "s2"]
           ELSE [calls EXCEPT ![frame(t)].c = int_from_bits(call.mhd, curve),
                              ![t].pc = "s2"]
  /\ UNCHANGED <<pst, spk, adr, rl, gen, curve, op, sgn, sgn2, ver, rec, non, ped, dec>>

\* sign: d = int_from_prvkey(q, ec); k = _rfc6979(c, d, ec, hf); 0 < k < n
\* _verify: c = int_from_bits(mhd, ec)
\* pubkey_recovery: _check_sig(r, s, ec)
Step2(t) ==
  /\ calls[t].pc = "s2"
  /\ LET call == calls[t]
         locals == calls[frame(t)]
         d == int_from_prvkey(call.q, curve)
         kk == _rfc6979(locals.c, d.d, curve, DefaultHf)
         e == _check_sig(call.sig[1], call.sig[2], curve)
     IN  calls' =
           CASE call.fn = "sign" ->
                  IF d.err # "none" THEN Return(t, SigErr(d.err))
                  ELSE IF kk.err # "none" THEN Return(t, SigErr(kk.err))
                  ELSE IF ~ephemeral_key_in_range(kk.k, curve)
                       THEN Return(t, SigErr("ephemeral key not in [1, n-1]"))
                  ELSE [calls EXCEPT ![frame(t)].k = kk.k, ![t].pc = "s3"]
             [] call.fn = "verify" ->
                  [calls EXCEPT ![frame(t)].c = int_from_bits(call.mhd, curve),
                                ![t].pc = "s3"]
             [] call.fn = "pubkey_recovery" ->
                  IF e # "none" THEN Return(t, [err |-> e, keys |-> <<>>])
                  ELSE [calls EXCEPT ![t].pc = "s3"]
  /\ UNCHANGED <<pst, spk, adr, rl, gen, curve, op, sgn, sgn2, ver, rec, non, ped, dec>>

\* sign: return _sign(c, d, k, ec)
\* _verify: ec.require_on_curve(P); _verhlp(c, P, r, s, ec)
\* pubkey_recovery: return _pubkey_recovery(c, r, s, ec)
Step3(t) ==
  /\ calls[t].pc = "s3"
  /\ LET call == calls[t]
         locals == calls[frame(t)]
         r == call.sig[1]
         s == call.sig[2]
         e == IF require_on_curve(call.P, curve) # "none"
              THEN require_on_curve(call.P, curve)
              ELSE _verhlp(locals.c, call.P, r, s, curve)
     IN  calls' =
           CASE call.fn = "sign" ->
                  Return(t, _sign(locals.c, call.q, locals.k, curve))
             [] call.fn = "verify" ->
                  Return(t, [raised |-> "none", value |-> (e = "none")])
             [] call.fn = "pubkey_recovery" ->
                  Return(t, [err |-> "none",
                             keys |-> _pubkey_recovery(locals.c, r, s, curve)])
  /\ UNCHANGED <<pst, spk, adr, rl, gen, curve, op, sgn, sgn2, ver, rec, non, ped, dec>>

NextConcurrent == \E t \in Threads : Call(t) \/ Step1(t) \/ Step2(t) \/ Step3(t)

SpecConcurrent == Init /\ [][NextConcurrent]_vars

\* test_commitment with any scalars in [0, MaxScalar]: C1 and C2 are
\* committed and verified, R commits to the summed opening and is compared
\* with ec.add(C1, C2)
TestCommitment ==
  /\ op = "init"
  /\ \E H \in SecondGenerators(curve),
        r1 \in 0..MaxScalar, v1 \in 0..MaxScalar,
        r2 \in 0..MaxScalar, v2 \in 0..MaxScalar :
       LET C1 == commit(r1, v1, H, curve)
           C2 == commit(r2, v2, H, curve)
           o == summed_opening(r1, v1, r2, v2)
       IN  ped' = [H |-> H, r1 |-> r1, v1 |-> v1, r2 |-> r2, v2 |-> v2,
                   C1 |-> C1, C2 |-> C2,
                   ok1 |-> pedersen_verify(r1, v1, C1, H, curve),
                   ok2 |-> pedersen_verify(r2, v2, C2, H, curve),
                   R |-> commit(o[1], o[2], H, curve),
                   sum |-> add(C1, C2, curve)]
  /\ op' = "test_commitment"
  /\ UNCHANGED <<pst, spk, adr, rl, gen, curve, sgn, sgn2, ver, rec, non, calls, dec>>

NextPedersen == TestCommitment

SpecPedersen == Init /\ [][NextPedersen]_vars

\* the characters decode is given: the separator, 'a' and 'l' of the
\* alphabet, 'A', 'b' outside the alphabet, a space, and a code point above
\* the ASCII range
Chars == {Separator, 97, 108, 65, 98, 32, 200}

\* the strings bech32.encode returns for short hrps and data parts
Encoded ==
  LET hrps == UNION {[1..len -> {97, Separator}] : len \in 1..MaxHrp}
      datas == UNION {[1..len -> {0, 1, 31}] : len \in 0..MaxData}
  IN  {bech32_encode(hrp, data) : hrp \in hrps, data \in datas}

\* encoded strings as they are, in upper case, with one character replaced,
\* and cut at either end
Bech32Args ==
  LET valid == Encoded
  IN  valid \cup {upper(str) : str \in valid}
        \cup UNION {{[str EXCEPT ![i] = ch] : i \in 1..Len(str), ch \in Chars} : str \in valid}
        \cup UNION {{SubSeq(str, i, j) : i \in 1..Len(str), j \in 0..Len(str)} : str \in valid}

\* decode of each argument, as a string and as a bytes object
DecodeTable ==
  [isbytes \in BOOLEAN, str \in Bech32Args |-> decode(isbytes, str)] @@ <<>>

Decode ==
  /\ op = "init"
  /\ \E isbytes \in BOOLEAN, str \in Bech32Args :
       dec' = [isbytes |-> isbytes, s |-> str, res |-> DecodeTable[isbytes, str]]
  /\ op' = "decode"
  /\ UNCHANGED <<pst, spk, adr, rl, gen, curve, sgn, sgn2, ver, rec, non, calls, ped>>

NextBech32 == Decode

\* the human-readable parts encoded: '1', 'a' and '~', up to MaxHrp + 2
\* characters
HrpArgs == UNION {[1..len -> {Separator, 97, 126}] : len \in 1..(MaxHrp + 2)}

\* the data parts encoded: up to MaxData + 1 values of 0..31
DataArgs == UNION {[1..len -> {0, 31}] : len \in 0..(MaxData + 1)}

\* decode(encode(hrp, data)): encode returns bytes
EncodeDecode ==
  /\ op = "init"
  /\ \E hrp \in HrpArgs, data \in DataArgs :
       LET str == bech32_encode(hrp, data)
       IN  dec' = [isbytes |-> TRUE, s |-> str, res |-> decode(TRUE, str),
                   hrp |-> hrp, data |-> data]
  /\ op' = "encode_decode"
  /\ UNCHANGED <<pst, spk, adr, rl, gen, curve, sgn, sgn2, ver, rec, non, calls, ped>>

NextRoundTrip == EncodeDecode

SpecRoundTrip == Init /\ [][NextRoundTrip]_vars

\* the state after construction for the encoders, which use no curve: one
\* curve stands for all
InitCodec == Init /\ curve = Curves[1]

\* the octets of the witness programs encoded: all 0xff, or a ramp
WitnessOctets(kind, i) == IF kind = "ff" THEN 255 ELSE (37 * i + 11) % 256

\* the witness programs encoded: every length from 1 to 41 octets
WitnessPrograms ==
  {[i \in 1..len |-> WitnessOctets(kind, i)] : len \in 1..41, kind \in {"ff", "ramp"}}

\* b32address_from_witness(wv, wp, network), then witness_from_b32address of
\* the address when one is returned
AddressRoundTrip ==
  /\ op = "init"
  /\ \E wv \in (-1)..17, wp \in WitnessPrograms, i \in DOMAIN _NETWORKS :
       LET b32 == b32address_from_witness(wv, wp, _NETWORKS[i])
       IN  adr' = [wv |-> wv, wp |-> wp, network |-> _NETWORKS[i],
                   err |-> b32.err, addr |-> b32.addr,
                   res |-> IF b32.err = "" THEN witness_from_b32address(b32.addr)
                           ELSE WitnessErr("")]
  /\ op' = "b32address_from_witness"
  /\ UNCHANGED <<pst, spk, rl, gen, dec, ped, calls, curve, sgn, sgn2, ver, rec, non>>

NextAddress == AddressRoundTrip

SpecAddress == InitCodec /\ [][NextAddress]_vars

\* the script types of script_pub_key_from_payload, and one it does not know
ScriptTypes == {"p2pk", "p2pkh", "p2sh", "p2wpkh", "p2wsh", "nulldata", "p2ms"}

\* the octets payloads and scripts are made of: the opcodes and lengths the
\* recognizers compare with, and two others
FillOctets == {0, 20, 32, 33, 65, 81, 255, OP_PUSHDATA1, OP_RETURN, OP_DUP, OP_EQUAL,
               OP_EQUALVERIFY, OP_HASH160, OP_CHECKSIG, OP_CHECKMULTISIG}

Filled(len, c) == [i \in 1..len |-> c]

\* the pub_keys of a p2ms payload, each behind its length
RECURSIVE pushed_keys(_, _)
pushed_keys(sizes, c) ==
  IF Len(sizes) = 0 THEN <<>>
  ELSE <<sizes[1]>> \o Filled(sizes[1], c) \o pushed_keys(Tail(sizes), c)

\* p2ms payloads m, pub_keys, n for up to MaxKeys keys of 33, 34 or 65
\* octets, with m from 0 to n + 1
P2msPayloads ==
  UNION {{<<80 + m>> \o pushed_keys(sizes, c) \o <<80 + n>> :
            m \in 0..(n + 1), sizes \in [1..n -> {33, 34, 65}], c \in {33, OP_CHECKMULTISIG}} :
         n \in 1..MaxKeys}

\* the payload lengths tried for a script type
PayloadLengths(type) ==
  IF type = "nulldata" THEN 0..81
  ELSE IF type = "p2pk" THEN {32, 33, 34, 64, 65, 66}
  ELSE IF type = "p2wsh" THEN {31, 32, 33}
  ELSE {19, 20, 21}

\* the payloads tried for a script type
Payloads(type) ==
  IF type = "p2ms" THEN P2msPayloads
  ELSE {Filled(len, c) : len \in PayloadLengths(type), c \in FillOctets}

\* script_pub_key_from_payload(type, payload), then
\* payload_from_script_pub_key of the script when one is returned
ScriptRoundTrip ==
  /\ op = "init"
  /\ \E type \in ScriptTypes \cup {"p2tr"} :
       \E payload \in Payloads(type) :
         LET s == script_pub_key_from_payload(type, payload)
         IN  spk' = [type |-> type, payload |-> payload, err |-> s.err,
                     script |-> s.script,
                     res |-> IF s.err = "" THEN payload_from_script_pub_key(s.script)
                             ELSE Payload("", <<>>)]
  /\ op' = "script_pub_key_from_payload"
  /\ UNCHANGED <<pst, adr, rl, gen, dec, ped, calls, curve, sgn, sgn2, ver, rec, non>>

\* one script of every type and shape: payloads of zero octets, and for
\* nulldata the lengths around the two forms of the data push
BaseScripts ==
  {script_pub_key_from_payload(type, Filled(len, 0)).script :
     type \in ScriptTypes \ {"p2ms", "nulldata"}, len \in {20, 32, 33, 65}}
  \cup {script_pub_key_from_payload("nulldata", Filled(len, 0)).script :
          len \in {0, 1, 20, 21, 23, 32, 33, 65, 74, 75, 76, 77, 80}}
  \cup {script_pub_key_from_payload("p2ms", payload).script : payload \in P2msPayloads}

\* the byte strings recognized: the scripts above, each also with one of its
\* first three or last two octets replaced, with its first or last octet
\* removed, and with an octet appended; and every string of up to two octets
Scripts ==
  (BaseScripts
   \cup {[s EXCEPT ![k] = c] :
           s \in {b \in BaseScripts : Len(b) >= 3}, k \in 1..3, c \in FillOctets}
   \cup {[s EXCEPT ![Len(s) - k] = c] :
           s \in {b \in BaseScripts : Len(b) >= 3}, k \in 0..1, c \in FillOctets}
   \cup {Tail(s) : s \in BaseScripts \ {<<>>}}
   \cup {SubSeq(s, 1, Len(s) - 1) : s \in BaseScripts \ {<<>>}}
   \cup {s \o <<c>> : s \in BaseScripts, c \in FillOctets}
   \cup UNION {[1..len -> FillOctets] : len \in 0..2})

\* payload_from_script_pub_key(script) of any byte string
Recognize ==
  /\ op = "init"
  /\ \E script \in Scripts :
       spk' = [type |-> "", payload |-> <<>>, err |-> "", script |-> script,
               res |-> payload_from_script_pub_key(script)]
  /\ op' = "payload_from_script_pub_key"
  /\ UNCHANGED <<pst, adr, rl, gen, dec, ped, calls, curve, sgn, sgn2, ver, rec, non>>

NextScript == ScriptRoundTrip \/ Recognize

SpecScript == InitCodec /\ [][NextScript]_vars

\* the hd_keypaths a map is given: none, or one whose xpub has the number of
\* octets the key length written in front of it stands for
KeyPaths(xpub_len) ==
  {<<>>} \cup
  {<<[xpub |-> Filled(xpub_len, 3), fingerprint |-> Filled(4, 5), derivation_path |-> path]>> :
     path \in {<<>>, <<44, 0, 0, 128>>}}

\* the partial_sigs an input is given: none, or one signature of a few octets
PartialSigs ==
  {<<>>} \cup
  {<<[key |-> Filled(33, 2), value |-> Filled(len, 48)]>> : len \in 1..(MaxOctets + 1)}

PsbtInputs ==
  [non_witness_utxo : {None},
   witness_utxo : {None},
   partial_sigs : PartialSigs,
   sighash : {0, 1},
   redeem_script : {<<>>, <<"OP_HASH160", "OP_EQUAL">>},
   witness_script : {<<>>, <<"OP_DUP", "OP_CHECKSIG">>},
   hd_keypaths : KeyPaths(33),
   final_script_sig : {<<>>, <<"OP_CHECKSIG">>},
   por_commitment : {<<>>, <<7>>}]

PsbtOutputs ==
  [redeem_script : {<<>>, <<"OP_DUP">>},
   witness_script : {<<>>},
   hd_keypaths : KeyPaths(33)]

\* a Psbt with as many maps as its tx has inputs and outputs
Psbts ==
  {[tx |-> [vin |-> <<9>>, vout |-> <<8>>], inputs |-> <<input>>, outputs |-> <<output>>,
    hd_keypaths |-> paths] :
     input \in PsbtInputs, output \in PsbtOutputs, paths \in {<<>>}}
  \cup
  {[tx |-> [vin |-> <<>>, vout |-> <<>>], inputs |-> <<>>, outputs |-> <<>>,
    hd_keypaths |-> paths] : paths \in KeyPaths(78)}

\* Psbt.deserialize(psbt.serialize())
SerializeDeserialize ==
  /\ op = "init"
  /\ \E psbt \in Psbts :
       pst' = [psbt |-> psbt, string |-> Psbt_serialize(psbt),
               res |-> Psbt_deserialize(Psbt_serialize(psbt))]
  /\ op' = "Psbt.serialize"
  /\ UNCHANGED <<spk, adr, rl, gen, dec, ped, calls, curve, sgn, sgn2, ver, rec, non>>

NextPsbt == SerializeDeserialize

SpecPsbt == InitCodec /\ [][NextPsbt]_vars

SpecBech32 == Init /\ [][NextBech32]_vars

\* recovery from arbitrary arguments
NextRecover == Recover

\* the nonce generator called with arbitrary arguments
NextRfc6979 == Rfc6979

SpecRfc6979 == Init /\ [][NextRfc6979]_vars

SpecRecover == Init /\ [][NextRecover]_vars

(***************************************************************************)
(* Properties.                                                             *)
(***************************************************************************)
\* the reduced digests of the two signed messages and of the verified one
SignC == int_from_bits(sgn.mhd, curve)
Sign2C == int_from_bits(sgn2.mhd, curve)
VerC == int_from_bits(ver.mhd, curve)

\* s before the low-s replacement, from the ephemeral key the call used
RawS == (mod_inv(sgn.res.k, curve.n) * (SignC + sgn.res.r * sgn.q)) % curve.n

\* C1: a signature returned by sign verifies under the signer's public key
\* d*G against the signed message.
VerifyAfterSign ==
  op = "verify_own" => ver.res = [raised |-> "none", value |-> TRUE]

\* a signature with the RFC6979 nonce whose s was replaced by n - s, verified
VerifyAfterSignWitness ==
  /\ op = "verify_own"
  /\ sgn.k = None
  /\ 2 * RawS > curve.n
  /\ sgn.res.s = curve.n - RawS
  /\ ver.res.value

\* C2: the signer's public key d*G is among the keys pubkey_recovery
\* returns for the signed message and its signature.
RecoveryFindsKey ==
  op = "recover_own" =>
    /\ rec.res.err = "none"
    /\ \E i \in DOMAIN rec.res.keys : rec.res.keys[i] = PubKey

\* C3: a signature returned by sign has r in [1, n-1] and s in [1, n/2].
LowS ==
  (op = "sign" /\ Signed) =>
    /\ 1 <= sgn.res.r /\ sgn.res.r <= curve.n - 1
    /\ 1 <= sgn.res.s /\ 2 * sgn.res.s <= curve.n

\* the point R = u*G + v*P that _verhlp computes for the verified arguments
VerR ==
  LET w == mod_inv(ver.sig[2], curve.n)
  IN  double_mult(ver.sig[1] * w, ver.P, VerC * w, curve.G, curve)

SigInRange(sig) ==
  /\ 0 < sig[1] /\ sig[1] < curve.n
  /\ 0 < sig[2] /\ sig[2] < curve.n

\* C4: verify raises nothing and returns a boolean: False for r or s out of
\* range, for a public key off the curve or infinite, for an infinite R and
\* for x(R) mod n # r; True exactly when _verify returns without raising.
VerifyNeverRaises ==
  op = "verify" =>
    /\ ver.res.raised = "none"
    /\ ver.res.value \in BOOLEAN
    /\ ver.res.value = (_verify(ver.mhd, ver.P, ver.sig, curve) = "none")
    /\ ~SigInRange(ver.sig) => ~ver.res.value
    /\ ver.P \notin Points(curve) => ~ver.res.value
    /\ (SigInRange(ver.sig) /\ ver.P \in Points(curve)) =>
         ((VerR[2] = 0 \/ VerR[1] % curve.n # ver.sig[1]) => ~ver.res.value)

\* an in-range signature and a key on the curve for which R is infinite
VerifyNeverRaisesWitness ==
  /\ op = "verify"
  /\ SigInRange(ver.sig)
  /\ ver.P \in Points(curve)
  /\ VerR[2] = 0
  /\ ver.res = [raised |-> "none", value |-> FALSE]

\* C6: a nonce returned by the RFC6979 generator lies in [1, n-1].
NonceInRange ==
  (op = "nonce" /\ non.res.err = "none") =>
    (0 < non.res.k /\ non.res.k < curve.n)

\* a nonce returned after a candidate was turned down
NonceInRangeWitness ==
  /\ op = "nonce"
  /\ non.res.err = "none"
  /\ non.res.tried > 1
  /\ 0 < non.res.k /\ non.res.k < curve.n

\* C7 as stated: two signatures with derived nonces under one key, on
\* messages whose reduced digests differ, never use the same nonce.
NonceNeverReused ==
  (op = "sign2" /\ sgn2.res.err = "none" /\ SignC # Sign2C) =>
    sgn.res.k # sgn2.res.k

\* C7, amended: two signatures with derived nonces under one key, on
\* messages whose reduced digests differ, seed the generator differently.
NonceSeedsDiffer ==
  (op = "sign2" /\ SignC # Sign2C) =>
    bprvbm(SignC, sgn.q, curve) # bprvbm(Sign2C, sgn2.q, curve)

\* two messages with different reduced digests signed under one key
NonceSeedsDifferWitness ==
  /\ op = "sign2"
  /\ sgn2.res.err = "none"
  /\ sgn.q = sgn2.q
  /\ SignC # Sign2C
  /\ bprvbm(SignC, sgn.q, curve) # bprvbm(Sign2C, sgn2.q, curve)

\* C8: sign with an explicit nonce outside [1, n-1] raises and returns no
\* signature; with a valid private key the error is the nonce's.
ExplicitNonceOutOfRange ==
  (op = "sign" /\ sgn.k # None /\ ~(0 < sgn.k[1] /\ sgn.k[1] < curve.n)) =>
    /\ sgn.res.err # "none"
    /\ sgn.res.r = 0 /\ sgn.res.s = 0
    /\ (0 < sgn.q /\ sgn.q < curve.n) =>
         sgn.res.err = "ephemeral key not in [1, n-1]"

\* k = n passed with a valid private key
ExplicitNonceOutOfRangeWitness ==
  /\ op = "sign"
  /\ sgn.k = Some(curve.n)
  /\ 0 < sgn.q /\ sgn.q < curve.n
  /\ sgn.res.err = "ephemeral key not in [1, n-1]"

\* the ephemeral key of a sign call whose arguments are valid: the explicit
\* one, or the one RFC6979 derives
SignK ==
  IF sgn.k = None THEN _rfc6979(SignC, sgn.q, curve, sgn.hf).k ELSE sgn.k[1]

SignArgsValid ==
  /\ 0 < sgn.q /\ sgn.q < curve.n
  /\ 0 < SignK /\ SignK < curve.n

\* r and s as the signature equation gives them for the call's ephemeral key
SignR0 == mult(SignK, curve.G, curve)[1] % curve.n
SignS0 == (mod_inv(SignK, curve.n) * (SignC + SignR0 * sgn.q)) % curve.n

\* C9: sign fails with the r = 0 error when x(k*G) mod n = 0 and with the
\* s = 0 error when s = 0, for the one ephemeral key of the call, and never
\* returns r = 0 or s = 0.
SignFailsOnZero ==
  op = "sign" =>
    /\ Signed => (sgn.res.r # 0 /\ sgn.res.s # 0)
    /\ (SignArgsValid /\ SignR0 = 0) => sgn.res.err = "r = 0, failed to sign"
    /\ (SignArgsValid /\ SignR0 # 0 /\ SignS0 = 0) =>
         sgn.res.err = "s = 0, failed to sign"
    /\ (SignArgsValid /\ SignR0 # 0 /\ SignS0 # 0) => Signed

\* the derived nonce gives s = 0 and the call fails
SignFailsOnZeroWitness ==
  /\ op = "sign"
  /\ sgn.k = None
  /\ SignArgsValid
  /\ SignR0 # 0
  /\ SignS0 = 0
  /\ sgn.res.err = "s = 0, failed to sign"

\* C10 as stated: a signature does not verify against another digest.
TamperedMessageFails ==
  op = "verify_tampered" => ver.res = [raised |-> "none", value |-> FALSE]

\* the reduced digests the signature (r, s) of the signer is valid for:
\* s*k - r*d mod n for the k in [1, n-1] with x(k*G) mod n = r
ValidDigests ==
  {(sgn.res.s * k - sgn.res.r * sgn.q) % curve.n :
     k \in {j \in 1..(curve.n - 1) : mult(j, curve.G, curve)[1] % curve.n = sgn.res.r}}

\* C10, amended: a signature verifies against another digest exactly when
\* the reduced digest is one of ValidDigests, of which the signed message's
\* c and -c - 2*r*d mod n are two.
TamperedMessageFailsUnlessValidDigest ==
  op = "verify_tampered" =>
    LET valid == ValidDigests
    IN  /\ ver.res.raised = "none"
        /\ ver.res.value = (VerC \in valid)
        /\ SignC \in valid
        /\ (0 - SignC - 2 * sgn.res.r * sgn.q) % curve.n \in valid

\* a digest with another reduced digest, not a valid one, is turned down
TamperedMessageWitness ==
  /\ op = "verify_tampered"
  /\ VerC # SignC
  /\ VerC \notin ValidDigests
  /\ ver.res = [raised |-> "none", value |-> FALSE]
\* the error of the strict _verify for the arguments of the verify call
VerErr == _verify(ver.mhd, ver.P, ver.sig, curve)

\* C11: with r or s outside [1, n-1] the strict _verify raises the range
\* error of _check_sig, whatever the digest and whatever the public key (on
\* the curve or not), and verify returns False.
RangeCheckedFirst ==
  (op = "verify" /\ ~SigInRange(ver.sig)) =>
    /\ VerErr = _check_sig(ver.sig[1], ver.sig[2], curve)
    /\ VerErr \in {"r not in [1, n-1]", "s not in [1, n-1]"}
    /\ ver.res = [raised |-> "none", value |-> FALSE]

\* s = n passed with a public key that is not on the curve
RangeCheckedFirstWitness ==
  /\ op = "verify"
  /\ ver.sig[1] = 1
  /\ ver.sig[2] = curve.n
  /\ ~is_on_curve(ver.P, curve)
  /\ VerErr = "s not in [1, n-1]"
  /\ ~ver.res.value

\* the errors that tell an invalid public key
InvalidKeyErrors == {"Point not on curve", "public key is infinite"}

\* C12: with r and s in range and a public key off the curve or infinite,
\* the strict _verify raises an invalid public key error for every digest,
\* and verify returns False.
InvalidKeyRejected ==
  (op = "verify" /\ SigInRange(ver.sig) /\ ver.P \notin Points(curve)) =>
    /\ VerErr \in InvalidKeyErrors
    /\ (ver.P[2] = 0) = (VerErr = "public key is infinite")
    /\ ver.res = [raised |-> "none", value |-> FALSE]

\* the point at infinity passed as public key with an in-range signature
InvalidKeyRejectedWitness ==
  /\ op = "verify"
  /\ SigInRange(ver.sig)
  /\ ver.P = INF
  /\ VerErr = "public key is infinite"
  /\ ~ver.res.value
\* the reduced digest of the message keys are recovered for
RecC == int_from_bits(rec.mhd, curve)

\* the candidates of pubkey_recovery in the order the loop builds them: for
\* j = 0..h-1, x = (r + j*n) mod p, the key from the even-y point R and then
\* the key from the odd-y point; derived is FALSE when x is on no point
RecCandidates ==
  LET r1 == mod_inv(rec.sig[1], curve.n)
      r1s == r1 * rec.sig[2]
      r1e == (0 - r1) * RecC
  IN  [i \in 1..(2 * curve.h) |->
         LET j == (i - 1) \div 2
             odd == (i - 1) % 2 = 1
             x == (rec.sig[1] + j * curve.n) % curve.p
             y == y_even(x, curve)
             R == IF odd THEN opposite(<<x, y>>, curve) ELSE <<x, y>>
         IN  [j |-> j, x |-> x, odd |-> odd, derived |-> y # -1,
              Q |-> IF y = -1 THEN INF
                    ELSE double_mult(r1s, R, r1e, curve.G, curve)]]

\* the candidate passes the verification core for (c, r, s)
RecChecksOut(cand) ==
  /\ cand.derived
  /\ _verhlp(RecC, cand.Q, rec.sig[1], rec.sig[2], curve) = "none"

\* C13: every key pubkey_recovery returns is a finite point of the curve
\* under which verify returns True for the same message and signature.
RecoveredKeysVerify ==
  op = "recover" =>
    \A i \in DOMAIN rec.res.keys :
      /\ rec.res.keys[i] \in Points(curve)
      /\ verify(rec.mhd, rec.res.keys[i], rec.sig, curve)
           = [raised |-> "none", value |-> TRUE]

\* a key is returned and a candidate that was derived is left out
RecoveredKeysVerifyWitness ==
  /\ op = "recover"
  /\ Len(rec.res.keys) > 0
  /\ \E i \in DOMAIN RecCandidates :
       /\ RecCandidates[i].derived
       /\ ~RecChecksOut(RecCandidates[i])
       /\ \A k \in DOMAIN rec.res.keys : rec.res.keys[k] # RecCandidates[i].Q

\* some public key makes the signature (r, s) valid for the digest
RecConsistent ==
  \E P \in Points(curve) :
    _verhlp(RecC, P, rec.sig[1], rec.sig[2], curve) = "none"

\* C14: for r, s in [1, n-1] that no public key makes valid,
\* pubkey_recovery returns the empty list and raises nothing.
EmptyRecoverySet ==
  (op = "recover" /\ SigInRange(rec.sig) /\ ~RecConsistent) =>
    rec.res = [err |-> "none", keys |-> <<>>]

\* candidates are derived, none checks out, and the empty list is returned
EmptyRecoverySetWitness ==
  /\ op = "recover"
  /\ SigInRange(rec.sig)
  /\ ~RecConsistent
  /\ \E i \in DOMAIN RecCandidates : RecCandidates[i].derived
  /\ rec.res = [err |-> "none", keys |-> <<>>]

\* C15: pubkey_recovery raises exactly when r or s is outside [1, n-1], the
\* error being the range error of _check_sig, and returns no list then; for
\* r, s in range it returns a list, whatever becomes of the candidates.
RecoveryFailsOnlyOnRange ==
  op = "recover" =>
    /\ rec.res.err = _check_sig(rec.sig[1], rec.sig[2], curve)
    /\ (rec.res.err # "none") = ~SigInRange(rec.sig)
    /\ rec.res.err # "none" => rec.res.keys = <<>>

\* r, s in range, x = r on no curve point: no error, no key
RecoveryFailsOnlyOnRangeWitness ==
  /\ op = "recover"
  /\ SigInRange(rec.sig)
  /\ \A i \in DOMAIN RecCandidates : ~RecCandidates[i].derived
  /\ rec.res = [err |-> "none", keys |-> <<>>]

\* the candidates that check out, in the loop's order
RecKept == SelectSeq(RecCandidates, RecChecksOut)

\* C16: the list returned is the keys of the candidates that check out in
\* the loop's order; of two keys, the earlier comes from a lower x, or from
\* the same x and the even-y point while the later comes from the odd-y one.
RecoveryOrdered ==
  (op = "recover" /\ rec.res.err = "none") =>
    /\ Len(rec.res.keys) = Len(RecKept)
    /\ \A i \in DOMAIN RecKept : rec.res.keys[i] = RecKept[i].Q
    /\ \A i \in DOMAIN RecKept : \A k \in DOMAIN RecKept :
         i < k =>
           \/ RecKept[i].x < RecKept[k].x
           \/ /\ RecKept[i].x = RecKept[k].x
              /\ ~RecKept[i].odd
              /\ RecKept[k].odd

\* C17: rfc6979 raises the private key error when q is outside [1, n-1] and
\* the size error when len(mhd) is not hf's digest size; no nonce is
\* returned and no candidate is built.  Otherwise it is _rfc6979 of the
\* reduced digest.
Rfc6979ChecksArguments ==
  op = "rfc6979" =>
    LET qOk == 0 < non.q /\ non.q < curve.n
        sizeOk == Len(non.mhd) = non.hf.digest_size
    IN  /\ ~qOk => non.res = NonceErr("private key not in [1, n-1]")
        /\ (qOk /\ ~sizeOk) =>
             non.res =
               NonceErr("mismatch between hf digest size and hashed message size")
        /\ (qOk /\ sizeOk) =>
             /\ non.res.err = "none"
             /\ non.res.tried >= 1
             /\ non.res =
                  _rfc6979(int_from_bits(non.mhd, curve), non.q, curve, non.hf)

\* a digest one octet too long passed with a valid private key
Rfc6979ChecksArgumentsWitness ==
  /\ op = "rfc6979"
  /\ 0 < non.q /\ non.q < curve.n
  /\ Len(non.mhd) = non.hf.digest_size + 1
  /\ non.res.err = "mismatch between hf digest size and hashed message size"
  /\ non.res.tried = 0
\* the result of thread t's call when it runs alone
Alone(t) ==
  LET call == calls[t]
  IN  CASE call.fn = "sign" ->
             sign(call.mhd, call.q, None, curve, DefaultHf)
        [] call.fn = "verify" -> verify(call.mhd, call.P, call.sig, curve)
        [] call.fn = "pubkey_recovery" ->
             pubkey_recovery(call.mhd, call.sig, curve)

\* C18: no step of a call of sign, verify or pubkey_recovery modifies the
\* curve, and whatever the interleaving of the threads' steps, a call that
\* has returned has the result it has when it runs alone.
ConcurrentCallsIndependent ==
  /\ [][curve' = curve]_vars
  /\ [](\A t \in Threads : calls[t].pc = "done" => calls[t].res = Alone(t))

\* two calls on different messages, both past their first steps when the
\* first returns its signature
ConcurrentCallsWitness ==
  /\ calls[1].pc = "done"
  /\ calls[1].fn = "sign"
  /\ calls[1].res.err = "none"
  /\ calls[2].pc = "s3"
  /\ calls[2].fn = "pubkey_recovery"
  /\ calls[2].mhd # calls[1].mhd
  /\ calls[1].res = Alone(1)
DecodeErrors ==
  {"UnicodeDecodeError",
   "Bech32 string contains ASCII characters outside printable set [33-126]",
   "Mixed case Bech32 string",
   "Missing HRP in Bech32 string",
   "Bech32 checksum length < 6",
   "Bech32 string data part contains invalid characters",
   "Invalid Bech32 string checksum"}

\* C19: decode either raises one of its ValueErrors or returns an hrp and a
\* data part, neither of them None, that encode back to the lower-case
\* argument, so that the checksum of the argument verifies.
DecodeReturnsOrRaises ==
  op = "decode" =>
    \/ dec.res.err \in DecodeErrors
    \/ /\ dec.res.err = ""
       /\ dec.res.hrp # None
       /\ dec.res.data # None
       /\ bech32_encode(dec.res.hrp[1], dec.res.data[1]) = lower(dec.s)
       /\ _verify_checksum(dec.res.hrp[1],
                           dec.res.data[1] \o _create_checksum(dec.res.hrp[1], dec.res.data[1]))

\* an upper-case string was decoded
DecodeReturnsWitness ==
  /\ op = "decode"
  /\ dec.res.err = ""
  /\ dec.s # lower(dec.s)
  /\ Len(dec.res.data[1]) > 0

\* the verification equation with the reduced scalars: w = 1/s mod n,
\* u = c*w mod n, v = r*w mod n, R = u*G + v*P; accepted when R is finite
\* and x(R) mod n = r
ReducedAccepts ==
  LET w == mod_inv(ver.sig[2], curve.n)
      u == (VerC * w) % curve.n
      v == (ver.sig[1] * w) % curve.n
      R == add(mult(u, curve.G, curve), mult(v, ver.P, curve), curve)
  IN  R[2] # 0 /\ R[1] % curve.n = ver.sig[1]

\* a strict verification that got as far as _verhlp's equation
VerEquationReached ==
  /\ op = "verify"
  /\ SigInRange(ver.sig)
  /\ is_on_curve(ver.P, curve)
  /\ ver.P[2] # 0

\* C21: for in-range r, s and a finite on-curve P, _verify accepts exactly
\* when the equation with the reduced scalars u and v does.
UnreducedScalarsAgree ==
  VerEquationReached => ((VerErr = "none") <=> ReducedAccepts)

\* C22: sign without a nonce gives the result of sign with the nonce that
\* rfc6979(hf(msg), q) returns: the same r and s, or the same failure.
DerivedNonceSameSignature ==
  op = "sign_derived" =>
    /\ sgn2.res.err = sgn.res.err
    /\ sgn2.res.r = sgn.res.r
    /\ sgn2.res.s = sgn.res.s
    /\ (Signed => sgn2.k = Some(sgn.res.k) /\ ephemeral_key_in_range(sgn.res.k, curve))

\* both calls signed a digest whose leftmost bits are not below n
DerivedNonceWitness ==
  /\ op = "sign_derived"
  /\ Signed
  /\ sgn2.res.err = "none"
  /\ sgn2.k # None
  /\ _int_from_bits(sgn.mhd, curve) >= curve.n
  /\ <<sgn2.res.r, sgn2.res.s>> = <<sgn.res.r, sgn.res.s>>

InRange(k) == 0 < k /\ k < curve.n

\* C23: the generator returns the first candidate in [1, n-1]; a candidate
\* is the leftmost bits of a T filled from empty with V = HMAC(K, V) until
\* it holds nsize octets; exactly one update K = HMAC(K, V || 0x00),
\* V = HMAC(K, V) separates a rejected candidate from the next one.
FirstCandidateInRange ==
  /\ [](gen.pc = "returned" =>
         /\ InRange(gen.k)
         /\ ~gen.over =>
              /\ gen.k = gen.cands[Len(gen.cands)]
              /\ \A i \in 1..(Len(gen.cands) - 1) : ~InRange(gen.cands[i])
              /\ gen.k = _rfc6979(gen.c, gen.q, curve, gen.hf).k)
  /\ [][gen.pc = "fill" /\ gen'.pc # "fill" =>
          /\ [V |-> gen.V, T |-> gen.T]
               = fill_T(gen.K, gen.V0, <<>>, curve, gen.hf)
          /\ Len(gen.T) >= nsize(curve)
          /\ Len(gen.T) < nsize(curve) + gen.hf.digest_size
          /\ gen'.k = _int_from_bits(gen.T, curve)
          /\ ~gen'.over => /\ gen'.cands = Append(gen.cands, gen'.k)
                           /\ gen.updates = Len(gen.cands)]_vars
  /\ [][gen.pc = "update" /\ gen'.pc # "update" =>
          /\ ~InRange(gen.k)
          /\ gen'.pc = "reset"
          /\ ~gen.over => /\ gen'.updates = gen.updates + 1
                          /\ gen'.updates = Len(gen.cands)
          /\ gen'.K = hmac_digest(gen.K, gen.V \o <<0>>, gen.hf)
          /\ gen'.V = hmac_digest(gen'.K, gen.V, gen.hf)]_vars

\* a third candidate returned where T takes two digests to fill
FirstCandidateWitness ==
  /\ gen.pc = "returned"
  /\ Len(gen.cands) = 3
  /\ gen.updates = 2
  /\ nsize(curve) > gen.hf.digest_size
  /\ Len(gen.T) = 2 * gen.hf.digest_size

\* a candidate in [1, n-1] has been built and is about to be tested
CandidateInRangeBuilt ==
  /\ gen.pc = "fill"
  /\ Len(gen.T) >= nsize(curve)
  /\ InRange(_int_from_bits(gen.T, curve))

\* the recovery loop runs j over 0, 1, ..., h - 1 and returns at j = h
RecoveryLoopBounded ==
  /\ [](rl.pc = "loop" => rl.j <= curve.h)
  /\ [](rl.pc = "returned" => rl.j = curve.h)
  /\ [][rl.pc = "loop" =>
          \/ rl.j < curve.h /\ rl'.j = rl.j + 1 /\ rl'.pc = "loop"
          \/ rl.j = curve.h /\ rl'.j = rl.j /\ rl'.pc = "returned"]_vars

VerNegated ==
  verify(ver.mhd, ver.P, <<ver.sig[1], curve.n - ver.sig[2]>>, curve)

\* C25: for r and s in [1, n-1] and any public key, verify accepts (r, s)
\* exactly when it accepts (r, n - s).
HighSAccepted ==
  (op = "verify" /\ SigInRange(ver.sig)) => (ver.res.value <=> VerNegated.value)

\* C26: decode(encode(hrp, data)) returns (hrp, data) for a non-empty
\* lower-case printable hrp, with or without '1' in it, and data in 0..31.
Bech32RoundTrip ==
  op = "encode_decode" =>
    dec.res = [err |-> "", hrp |-> Some(dec.hrp), data |-> Some(dec.data)]

\* an hrp with '1' inside it and a non-empty data part came back
Bech32RoundTripWitness ==
  /\ op = "encode_decode"
  /\ Len(dec.hrp) = 3
  /\ dec.hrp[2] = Separator
  /\ dec.hrp[3] # Separator
  /\ Len(dec.data) > 0
  /\ dec.res.hrp = Some(dec.hrp)
  /\ dec.res.data = Some(dec.data)

\* C27: for wv in [0, 16], a witness program _check_witness accepts and a
\* known network, witness_from_b32address of the address built by
\* b32address_from_witness returns (wv, wp, network, len(wp) != 20); the
\* padded 8-to-5 conversion followed by the unpadded 5-to-8 one restores wp.
AddressRoundTripHolds ==
  (op = "b32address_from_witness" /\ _check_witness(adr.wv, adr.wp) = "") =>
    /\ adr.err = ""
    /\ adr.res = [err |-> "", wv |-> adr.wv, wp |-> adr.wp,
                  network |-> adr.network, is_script_hash |-> Len(adr.wp) # 20]
    /\ _convertbits(_convertbits(adr.wp, 8, 5, TRUE).ret, 5, 8, FALSE)
         = [err |-> "", ret |-> adr.wp]

\* a 33-octet program of version 16 on regtest, whose last 5-bit group is
\* padded, came back
AddressRoundTripWitness ==
  /\ op = "b32address_from_witness"
  /\ adr.wv = 16
  /\ Len(adr.wp) = 33
  /\ adr.wp[33] = 255
  /\ adr.network = "regtest"
  /\ adr.res.err = ""
  /\ adr.res.wp = adr.wp
  /\ adr.res.is_script_hash

\* C28: for each type and every payload script_pub_key_from_payload accepts
\* for it, nulldata payloads of 0, 75, 76 and 80 octets included,
\* payload_from_script_pub_key of the script returns (type, payload).
ScriptRoundTripHolds ==
  (op = "script_pub_key_from_payload" /\ spk.type \in ScriptTypes /\ spk.err = "") =>
    spk.res = Payload(spk.type, spk.payload)

\* a nulldata payload of 76 octets, pushed behind OP_PUSHDATA1, came back
ScriptRoundTripWitness ==
  /\ op = "script_pub_key_from_payload"
  /\ spk.type = "nulldata"
  /\ Len(spk.payload) = 76
  /\ spk.script[2] = OP_PUSHDATA1
  /\ spk.res = Payload("nulldata", spk.payload)

\* the types whose recognizer returns True for the script of the state
Recognizing ==
  {type \in ScriptTypes :
     \/ type = "p2pk" /\ is_p2pk(spk.script)
     \/ type = "p2pkh" /\ is_p2pkh(spk.script)
     \/ type = "p2sh" /\ is_p2sh(spk.script)
     \/ type = "p2ms" /\ is_p2ms(spk.script).err = "" /\ is_p2ms(spk.script).value
     \/ type = "nulldata" /\ is_nulldata(spk.script)
     \/ type = "p2wpkh" /\ is_p2wpkh(spk.script)
     \/ type = "p2wsh" /\ is_p2wsh(spk.script)}

\* C29: for every byte string at most one of the seven recognizers returns
\* True, the type returned is the one whose recognizer does, and 'unknown'
\* is returned exactly when all seven return False.
AtMostOneRecognizer ==
  op = "payload_from_script_pub_key" =>
    /\ Cardinality(Recognizing) <= 1
    /\ \A type \in Recognizing : spk.res.type = type
    /\ spk.res.type = "unknown" <=> (Recognizing = {} /\ is_p2ms(spk.script).err = "")

\* a p2wpkh script, which a nulldata recognizer blind to the first octet
\* would also take, is recognized by is_p2wpkh alone
AtMostOneRecognizerWitness ==
  /\ op = "payload_from_script_pub_key"
  /\ Len(spk.script) = 22
  /\ spk.script[2] = 20
  /\ Recognizing = {"p2wpkh"}
  /\ spk.res.type = "p2wpkh"

\* no input of the Psbt of the state writes the record of a partial
\* signature, which PsbtInput.serialize frames with the len of a hex string
WellFramed ==
  \A i \in 1..Len(pst.psbt.inputs) : pst.psbt.inputs[i].partial_sigs = <<>>

\* C30: every record written by the three serialize methods carries the
\* lengths of its key and of its value, so that deserialize_map splits the
\* octets back into the same records and Psbt.deserialize(psbt.serialize())
\* yields the tx, partial_sigs, sighash, scripts and hd_keypaths of psbt.
PsbtRoundTrip ==
  op = "Psbt.serialize" => pst.res = [err |-> "", psbt |-> pst.psbt]

\* the round trip of the Psbts that write no partial signature
PsbtRoundTripWellFramed ==
  (op = "Psbt.serialize" /\ WellFramed) => pst.res = [err |-> "", psbt |-> pst.psbt]
====
